---- MODULE Spec2Model ----
(***************************************************************************)
(* A model of the semantic front-end of gqlc/compiler: the import          *)
(* resolution engine (imports.go), the extension merge engine (merge.go)   *)
(* and the type-checker driver (validate.go).                              *)
(*                                                                         *)
(* Pointers of the Go code are modelled by values: a document is named by  *)
(* its index in the input slice, a declaration of a document carries the   *)
(* place it was parsed at (src), and a declaration allocated by mergeTypes *)
(* has src = Nil, so that the pointer comparison v != decl of the code is  *)
(* the comparison of src fields here.                                      *)
(***************************************************************************)
EXTENDS Integers, Sequences, FiniteSets, Bags, TLC

VARIABLES
    input,     \* the batch as ReduceImports was called with it (never changed)
    pc,        \* position of the running operation
    docs,      \* the input slice of documents (mutated in place)
    Imported,  \* node.Imported, per node index
    Childs,    \* node.Childs, per node index (a sequence of node indices)
    nodes,     \* the nodes slice of createImportTries / the forest
    bi,        \* loop index i of the build loop of createImportTries
    err,       \* the error returned by ReduceImports (Nil when none)
    rDocs,     \* the documents returned by ReduceImports (Nil when none)
    ti,        \* index in the forest of the root being resolved
    typeMap,   \* typeMap of resolveImports
    peerMap,   \* peerMap of resolveImports
    q,         \* the queue of walk
    phase,     \* which map the running walk fills: "walk" or "peer"
    visited,   \* the nodes the running walk has taken from the queue, in order
    typesIn,   \* the map MergeExtensions was called with (never changed)
    typesOut,  \* the map types of MergeExtensions (mutated in place)
    todo,      \* the names the range loop of MergeExtensions has yet to yield
    panicked,  \* the name whose list made mergeDecls panic, and the message
    checkers,  \* the checkers given to CheckTypes: what each one's Check returns
    ir,        \* the documents of the IR given to CheckTypes
    ci,        \* the index of the checker the loop of CheckTypes is at
    called,    \* the checkers invoked so far, each with the IR it was given
    errs,      \* errs of CheckTypes
    vir,       \* the IR validate was called with
    vdocs,     \* the documents the outer range of validate has yet to yield
    vdoc,      \* the document of the running iteration of the outer range
    vnames,    \* the names the inner range of validate has yet to yield
    validated, \* the declarations validated so far, in the order of validation
    verrs,     \* errs of validate, as the bag of its diagnostics
    vpanic,    \* the message of the panic that ended validate (Ok when none)
    container, \* what holds the literal under validation, by the routine that validates it
    held,      \* the literal the container holds
    heldType,  \* the declared type the literal is validated against
    original,  \* the literal the container held before its first validation
    runs,      \* how many times the container has been validated
    cmp        \* the two types given to compareTypes, and what it returned

importVars == <<input, docs, Imported, Childs, nodes, bi, err, rDocs, ti, typeMap,
                peerMap, q, phase, visited>>
mergeVars == <<typesIn, typesOut, todo, panicked>>
checkVars == <<checkers, ir, ci, called, errs>>
validVars == <<vir, vdocs, vdoc, vnames, validated, verrs, vpanic>>

valueVars == <<container, held, heldType, original, runs, cmp>>

vars == <<pc, importVars, mergeVars, checkVars, validVars, valueVars>>

Nil == "nil"

\* the bound on the nodes one walk may take from its queue
MaxVisits == 6

-----------------------------------------------------------------------------
(* Sequence helpers *)

RECURSIVE SeqConcat(_)
SeqConcat(ss) == IF ss = <<>> THEN <<>> ELSE Head(ss) \o SeqConcat(Tail(ss))

Range(s) == {s[i] : i \in DOMAIN s}

SeqsUpTo(S, n) == UNION {[1..k -> S] : k \in 0..n}

RECURSIVE Perms(_)
Perms(S) == IF S = {} THEN {<<>>}
            ELSE UNION {{<<x>> \o p : p \in Perms(S \ {x})} : x \in S}

-----------------------------------------------------------------------------
(* Names *)

\* strings.Trim(imp.Value, "\""), on the literals of the model
TrimQuotes(v) ==
    CASE v = "\"a\"" -> "a"
      [] v = "\"b\"" -> "b"
      [] v = "\"c\"" -> "c"
      [] v = "\"x\"" -> "x"
      [] v = "\"graph\"" -> "graph"
      [] v = "\"six\"" -> "six"
      [] v = "\"two\"" -> "two"
      [] v = "\"thr\"" -> "thr"
      [] OTHER -> v

\* strings.ToLower, on the type names of the model
ToLower(name) ==
    CASE name = "Int" -> "int"
      [] name = "ID" -> "id"
      [] name = "Id" -> "id"
      [] name = "String" -> "string"
      [] name = "Boolean" -> "boolean"
      [] name = "Float" -> "float"
      [] name = "A" -> "a"
      [] name = "B" -> "b"
      [] name = "C" -> "c"
      [] name = "D" -> "d"
      [] OTHER -> name

\* a test that takes no name for a built-in one
isBuiltinNever(name) == FALSE

isBuiltinType(name) ==
    LET tname == ToLower(name)
    IN  tname = "id" \/ tname = "boolean" \/ tname = "int" \/ tname = "string"
        \/ tname = "float"

-----------------------------------------------------------------------------
(* The AST: type expressions, fields, declarations, documents *)

\* A type expression is the sequence of its wrappers, outermost first, ending
\* with the name of its Ident: [A!] is <<"List", "NonNull", "A">>.
Ident(n) == <<n>>
ListOf(t) == <<"List">> \o t
NonNullOf(t) == <<"NonNull">> \o t

\* *ast.FieldList: the nil pointer, or a list (which may be empty)
NilList == [present |-> FALSE, List |-> <<>>]
FieldList(list) == [present |-> TRUE, List |-> list]

\* ast.Field: Type is NoType for a field without type, Args is NilList when
\* the field has no argument list
NoType == <<>>
Field(name, type, args) == [Name |-> name, Type |-> type, Args |-> args]

\* ast.TypeDecl.  ext tells TypeDecl_TypeExtSpec from TypeDecl_TypeSpec; kind is
\* the variant of TypeSpec.Type; Fields is the field list of the kind (RootOps,
\* Fields, Values or Args), NilList when absent; name is Nil when TypeSpec.Name
\* is; src is the place of a parsed declaration, NoSrc for an allocated one.
NoSrc == <<Nil, 0>>
Decl(tok, ext, kind, name, ifaces, fields, members, dirs) ==
    [src |-> NoSrc, Tok |-> tok, ext |-> ext, kind |-> kind, name |-> name,
     Interfaces |-> ifaces, Fields |-> fields, Members |-> members,
     Directives |-> dirs]

\* token.Token of a definition of each kind
TokOf(kind) ==
    CASE kind = "Schema" -> "SCHEMA"
      [] kind = "Scalar" -> "SCALAR"
      [] kind = "Object" -> "TYPE"
      [] kind = "Interface" -> "INTERFACE"
      [] kind = "Union" -> "UNION"
      [] kind = "Enum" -> "ENUM"
      [] kind = "Input" -> "INPUT"
      [] kind = "Directive" -> "DIRECTIVE"
      [] OTHER -> "ILLEGAL"

\* the nil *ast.TypeDecl
NilDecl == Decl("ILLEGAL", FALSE, "nil", Nil, <<>>, NilList, <<>>, <<>>)

\* ast.DirectiveLit applied to a document; Paths are the BasicLit values of
\* the list literal of an import
DirLit(name, paths) == [Name |-> name, Paths |-> paths]

Document(name, dirs, types) ==
    [Name |-> name, Directives |-> dirs,
     Types |-> [j \in DOMAIN types |-> [types[j] EXCEPT !.src = <<name, j>>]]]

-----------------------------------------------------------------------------
(* imports.go: pure helpers *)

\* unwrapType, called with the *ast.List or *ast.NonNull of a field type.  The
\* recursive calls of the code pass the oneof wrapper v.Type (a *ast.List_List,
\* *ast.List_NonNull or *ast.NonNull_List), which matches no case: nil.
unwrapType(t) ==
    CASE Len(t) = 1 -> t[1]
      [] Head(t) = "List" /\ Len(Tail(t)) = 1 -> Tail(t)[1]
      [] Head(t) = "NonNull" /\ Len(Tail(t)) = 1 -> Tail(t)[1]
      [] OTHER -> Nil

\* resolveFieldList: the names it hands to add, in order.  A Nil entry stands
\* for t == nil, where t.Name panics; a field without type ends the list.
RECURSIVE resolveFieldList(_)
RECURSIVE resolveFieldsFrom(_, _)
resolveFieldsFrom(list, i) ==
    IF i > Len(list) THEN <<>>
    ELSE LET f == list[i]
             fromArgs == resolveFieldList(f.Args)
         IN  IF Nil \in Range(fromArgs) THEN fromArgs
             ELSE IF f.Type = NoType THEN fromArgs
             ELSE IF unwrapType(f.Type) = Nil THEN fromArgs \o <<Nil>>
             ELSE fromArgs \o <<unwrapType(f.Type)>> \o resolveFieldsFrom(list, i + 1)
resolveFieldList(fields) ==
    IF ~fields.present THEN <<>> ELSE resolveFieldsFrom(fields.List, 1)

\* a cycle check that never finds a
isCircularNever(a, b, childs) == FALSE

isCircular(a, b, childs) == \E i \in DOMAIN childs[b] : childs[b][i] = a

\* no panic
Ok == "ok"

\* mergeExprs: the payload of the merge of o.Type and n.Type.  A field list of
\* the result is FieldList{List: append(u.List, v.List...)}, which dereferences
\* both operands' lists.  A Directive payload and a nil payload match no case.
mergeExprs(o, n) ==
    LET payload(k, ifaces, fields, members) ==
            [panic |-> Ok, kind |-> k, Interfaces |-> ifaces, Fields |-> fields,
             Members |-> members]
        bad(msg) == [panic |-> msg, kind |-> "nil", Interfaces |-> <<>>,
                     Fields |-> NilList, Members |-> <<>>]
        lists == IF o.Fields.present /\ n.Fields.present
                 THEN FieldList(o.Fields.List \o n.Fields.List)
                 ELSE NilList
    IN  CASE o.kind \in {"Schema", "Interface", "Enum", "Input"} ->
               IF n.kind # o.kind THEN bad("mismatched types")
               ELSE IF ~lists.present THEN bad("nil pointer dereference")
               ELSE payload(o.kind, <<>>, lists, <<>>)
          [] o.kind = "Scalar" ->
               IF n.kind # o.kind THEN bad("mismatched types")
               ELSE payload("Scalar", o.Interfaces, o.Fields, o.Members)
          [] o.kind = "Object" ->
               IF n.kind # o.kind THEN bad("mismatched types")
               ELSE IF ~lists.present THEN bad("nil pointer dereference")
               ELSE payload("Object", o.Interfaces \o n.Interfaces, lists, <<>>)
          [] o.kind = "Union" ->
               IF n.kind # o.kind THEN bad("mismatched types")
               ELSE payload("Union", <<>>, NilList, o.Members \o n.Members)
          [] OTHER -> payload("nil", <<>>, NilList, <<>>)

\* mergeTypes(o, n): [panic, decl].  The result is a new declaration: a
\* Definition when n is one, an Extension when both are Extensions.
mergeTypes(o, n) ==
    LET e == mergeExprs(o, n)
    IN  CASE ~o.ext /\ n.ext -> [panic |-> "compiler: circular import", decl |-> NilDecl]
          [] ~o.ext /\ ~n.ext ->
               [panic |-> "compiler: unexpected merging of TypeSpec and TypeSpec",
                decl |-> NilDecl]
          [] OTHER ->
               IF e.panic # Ok THEN [panic |-> e.panic, decl |-> NilDecl]
               ELSE [panic |-> Ok,
                     decl |-> [src |-> NoSrc, Tok |-> "ILLEGAL", ext |-> n.ext,
                               kind |-> e.kind, name |-> o.name,
                               Interfaces |-> e.Interfaces, Fields |-> e.Fields,
                               Members |-> e.Members,
                               Directives |-> o.Directives \o n.Directives]]

\* a map[string]*ast.TypeDecl is a function from its keys; Put is m[k] = v
EmptyMap == [k \in {} |-> NilDecl]
Put(m, k, v) == [x \in DOMAIN m \cup {k} |-> IF x = k THEN v ELSE m[x]]

\* the add closure resolveImports gives addTypes for the root's own types:
\* [m, skip, panic]
addRoot(name, decl, m) ==
    CASE isBuiltinType(name) -> [m |-> m, skip |-> TRUE, panic |-> Ok]
      [] name \in DOMAIN m /\ m[name] # NilDecl -> [m |-> m, skip |-> FALSE, panic |-> Ok]
      [] OTHER -> [m |-> Put(m, name, decl), skip |-> FALSE, panic |-> Ok]

\* the add closure resolveImports gives walk, for an imported document's types
addImport(name, decl, m) ==
    LET exists == name \in DOMAIN m
        keep(skip) == [m |-> m, skip |-> skip, panic |-> Ok]
    IN  CASE isBuiltinType(name) -> keep(TRUE)
          [] ~exists /\ decl # NilDecl -> keep(FALSE)
          [] exists /\ decl = NilDecl -> keep(TRUE)
          [] decl = NilDecl -> [m |-> Put(m, name, decl), skip |-> FALSE, panic |-> Ok]
          [] m[name] = NilDecl -> [m |-> Put(m, name, decl), skip |-> FALSE, panic |-> Ok]
          [] m[name].src # decl.src \/ m[name].src = NoSrc ->
               LET r == mergeTypes(m[name], decl)
               IN  IF r.panic # Ok THEN [m |-> m, skip |-> FALSE, panic |-> r.panic]
                   ELSE [m |-> Put(m, name, r.decl), skip |-> FALSE, panic |-> Ok]
          [] OTHER -> keep(FALSE)

add(mode, name, decl, m) ==
    IF mode = "root" THEN addRoot(name, decl, m) ELSE addImport(name, decl, m)

\* the names addTypes looks for inside a declaration, in order (Nil: a panic)
containedTypes(tg) ==
    CASE tg.kind = "Object" -> tg.Interfaces \o resolveFieldList(tg.Fields)
      [] tg.kind \in {"Interface", "Input", "Directive"} -> resolveFieldList(tg.Fields)
      [] tg.kind = "Union" -> tg.Members
      [] OTHER -> <<>>

\* add(name, nil, typeMap) for each of names: [m, panic]
RECURSIVE addNames(_, _, _)
addNames(mode, names, m) ==
    IF names = <<>> THEN [m |-> m, panic |-> Ok]
    ELSE IF Head(names) = Nil THEN [m |-> m, panic |-> "nil pointer dereference"]
    ELSE addNames(mode, Tail(names), add(mode, Head(names), NilDecl, m).m)

\* addTypes(n, typeMap, add) over the declarations types[i..]: [m, panic]
RECURSIVE addTypesFrom(_, _, _, _)
addTypesFrom(mode, types, i, m) ==
    IF i > Len(types) THEN [m |-> m, panic |-> Ok]
    ELSE LET tg == types[i]
             name == tg.name
             r == add(mode, name, tg, m)
             c == addNames(mode, containedTypes(tg), r.m)
         IN  IF name = Nil THEN [m |-> m, panic |-> "nil pointer dereference"]
             ELSE IF r.panic # Ok THEN [m |-> r.m, panic |-> r.panic]
             ELSE IF r.skip THEN addTypesFrom(mode, types, i + 1, r.m)
             ELSE IF c.panic # Ok THEN c
             ELSE addTypesFrom(mode, types, i + 1, c.m)

addTypes(mode, types, m) == addTypesFrom(mode, types, 1, m)

-----------------------------------------------------------------------------
(* imports.go: ReduceImports *)

\* the Error values createImportTries returns
NoErr == [kind |-> "none", DocName |-> "", a |-> "", b |-> ""]
UnknownImport(n, value) ==
    [kind |-> "unknown import", DocName |-> n, a |-> value, b |-> ""]
CircularImports(n, id) ==
    [kind |-> "circular imports", DocName |-> n, a |-> n, b |-> id]

\* a dMap lookup that yields the first node for a name no document has
dMapAtDefault(ds, path) ==
    LET named == {i \in DOMAIN ds : ds[i].Name = path}
    IN  IF named = {} THEN 1 ELSE CHOOSE i \in named : \A j \in named : j <= i

\* dMap[path]: the node of the last document of that name, 0 for nil
dMapAt(ds, path) ==
    LET named == {i \in DOMAIN ds : ds[i].Name = path}
    IN  IF named = {} THEN 0 ELSE CHOOSE i \in named : \A j \in named : j <= i

\* the values of the import directives of a document, in order
importValues(doc) ==
    SeqConcat([k \in DOMAIN doc.Directives |->
                  IF doc.Directives[k].Name = "import"
                  THEN doc.Directives[k].Paths ELSE <<>>])

\* the body of the build loop for node n, over the import values from the
\* k-th on: [Imported, Childs, err]
RECURSIVE importFrom(_, _, _, _, _, _)
importFrom(ds, n, values, k, imported, childs) ==
    IF k > Len(values) THEN [Imported |-> imported, Childs |-> childs, err |-> NoErr]
    ELSE LET path == TrimQuotes(values[k])
             id == dMapAt(ds, path)
         IN  IF id = 0
             THEN [Imported |-> imported, Childs |-> childs,
                   err |-> UnknownImport(ds[n].Name, values[k])]
             ELSE IF isCircular(n, id, childs)
             THEN [Imported |-> imported, Childs |-> childs,
                   err |-> CircularImports(ds[n].Name, ds[id].Name)]
             ELSE importFrom(ds, n, values, k + 1,
                             [imported EXCEPT ![id] = TRUE],
                             [childs EXCEPT ![n] = Append(@, id)])

\* a removal loop that keeps every node
removeImportedNone(ns, imported) == ns

\* the second loop of createImportTries: the nodes that are not imported
removeImported(ns, imported) == SelectSeq(ns, LAMBDA n : ~imported[n])

\* one iteration of the build loop of createImportTries
BuildNode ==
    /\ UNCHANGED <<mergeVars, checkVars, validVars, valueVars>>
    /\ pc = "build"
    /\ bi <= Len(nodes)
    /\ LET n == nodes[bi]
           r == importFrom(docs, n, importValues(docs[n]), 1, Imported, Childs)
       IN  /\ Imported' = r.Imported
           /\ Childs' = r.Childs
           /\ err' = r.err
           /\ IF r.err # NoErr
              THEN pc' = "error" /\ bi' = bi
              ELSE pc' = "build" /\ bi' = bi + 1
    /\ UNCHANGED <<input, docs, nodes, rDocs, ti, typeMap, peerMap, q, phase, visited>>

\* the end of createImportTries: the forest
Forest ==
    /\ UNCHANGED <<mergeVars, checkVars, validVars, valueVars>>
    /\ pc = "build"
    /\ bi > Len(nodes)
    /\ nodes' = removeImported(nodes, Imported)
    /\ pc' = "resolve"
    /\ ti' = 1
    /\ UNCHANGED <<input, docs, Imported, Childs, bi, err, rDocs, typeMap, peerMap, q,
                   phase, visited>>

\* the deferred function of resolveImports: root.Types becomes the values of
\* typeMap, in the order the map iteration yields them (any order)
deferred(ds, root, tm) ==
    {[ds EXCEPT ![root].Types = [i \in DOMAIN ks |-> tm[ks[i]]]] :
        ks \in Perms(DOMAIN tm)}

\* the entries of a map whose declaration is nil, and the others
nilEntries(m) == [k \in {x \in DOMAIN m : m[x] = NilDecl} |-> NilDecl]
resolvedEntries(m) == [k \in {x \in DOMAIN m : m[x] # NilDecl} |-> m[k]]

\* a peer loop that forgets typeMap[name] = tg
moveResolvedNone(tm, pm) == tm

\* for name, tg := range peerMap: typeMap[name] = tg for every resolved entry
moveResolved(tm, pm) ==
    [k \in DOMAIN tm \cup DOMAIN resolvedEntries(pm) |->
        IF k \in DOMAIN resolvedEntries(pm) THEN pm[k] ELSE tm[k]]

\* for len(peerMap) > 0: whether resolveImports runs another pass over pm
anotherPass(pm) == DOMAIN pm # {}

\* resolveImports up to its first walk: the root's own types and the queue
ResolveRoot ==
    /\ UNCHANGED <<mergeVars, checkVars, validVars, valueVars>>
    /\ pc = "resolve"
    /\ ti <= Len(nodes)
    /\ LET root == nodes[ti]
           r == addTypes("root", docs[root].Types, EmptyMap)
       IN  /\ typeMap' = r.m
           /\ IF r.panic # Ok
              THEN /\ pc' = "panic"
                   /\ err' = [NoErr EXCEPT !.kind = r.panic]
                   /\ docs' \in deferred(docs, root, r.m)
                   /\ UNCHANGED <<q, phase, visited>>
              ELSE /\ pc' = "walk"
                   /\ q' = Childs[root]
                   /\ phase' = "walk"
                   /\ visited' = <<>>
                   /\ UNCHANGED <<input, docs, err>>
    /\ peerMap' = EmptyMap
    /\ UNCHANGED <<input, Imported, Childs, nodes, bi, rDocs, ti>>

\* a queue that takes the children at its front
pushFront(queue, childs) == childs \o queue

\* for _, c := range vn.Childs: q.PushBack(c)
pushBack(queue, childs) == queue \o childs

\* one iteration of the loop of walk.  The history visited holds the first
\* MaxVisits visits of a walk; a walk is followed beyond them for as long as
\* its visits change neither the map nor the length of the queue, and do
\* change the queue.
WalkStep ==
    /\ UNCHANGED <<mergeVars, checkVars, validVars, valueVars>>
    /\ pc = "walk"
    /\ q # <<>>
    /\ LET root == nodes[ti]
           vn == Head(q)
           m == IF phase = "walk" THEN typeMap ELSE peerMap
           r == addTypes("import", docs[vn].Types, m)
       IN  /\ \/ Len(visited) < MaxVisits
              \/ r.panic = Ok /\ r.m = m /\ Len(Childs[vn]) = 1 /\ Childs[vn] # <<vn>>
           /\ IF phase = "walk"
              THEN typeMap' = r.m /\ peerMap' = peerMap
              ELSE peerMap' = r.m /\ typeMap' = typeMap
           /\ visited' = IF Len(visited) < MaxVisits THEN Append(visited, vn) ELSE visited
           /\ IF r.panic # Ok
              THEN /\ pc' = "panic"
                   /\ err' = [NoErr EXCEPT !.kind = r.panic]
                   /\ docs' \in deferred(docs, root, typeMap')
                   /\ q' = Tail(q)
              ELSE /\ q' = pushBack(Tail(q), Childs[vn])
                   /\ UNCHANGED <<pc, docs, err>>
    /\ UNCHANGED <<input, Imported, Childs, nodes, bi, rDocs, ti, phase>>

\* after the first walk: the un-imported peer types, and the test of the loop
EndWalk ==
    /\ UNCHANGED <<mergeVars, checkVars, validVars, valueVars>>
    /\ pc = "walk"
    /\ q = <<>>
    /\ phase = "walk"
    /\ peerMap' = nilEntries(typeMap)
    /\ IF anotherPass(peerMap')
       THEN /\ q' = Childs[nodes[ti]]
            /\ phase' = "peer"
            /\ visited' = <<>>
            /\ pc' = "walk"
       ELSE /\ pc' = "finish"
            /\ UNCHANGED <<q, phase, visited>>
    /\ UNCHANGED <<input, docs, Imported, Childs, nodes, bi, err, rDocs, ti, typeMap>>

\* the end of one pass of the peer loop, and the test of the loop
EndPass ==
    /\ UNCHANGED <<mergeVars, checkVars, validVars, valueVars>>
    /\ pc = "walk"
    /\ q = <<>>
    /\ phase = "peer"
    /\ typeMap' = moveResolved(typeMap, peerMap)
    /\ peerMap' = nilEntries(peerMap)
    /\ IF anotherPass(peerMap')
       THEN /\ q' = Childs[nodes[ti]]
            /\ visited' = <<>>
            /\ pc' = "walk"
       ELSE /\ pc' = "finish"
            /\ UNCHANGED <<q, visited>>
    /\ UNCHANGED <<input, docs, Imported, Childs, nodes, bi, err, rDocs, ti, phase>>

\* resolveImports returns: the deferred function rewrites root.Types
Finish ==
    /\ UNCHANGED <<mergeVars, checkVars, validVars, valueVars>>
    /\ pc = "finish"
    /\ docs' \in deferred(docs, nodes[ti], typeMap)
    /\ ti' = ti + 1
    /\ pc' = "resolve"
    /\ UNCHANGED <<input, Imported, Childs, nodes, bi, err, rDocs, typeMap, peerMap, q,
                   phase, visited>>

\* ReduceImports returns the documents of the forest
Return ==
    /\ UNCHANGED <<mergeVars, checkVars, validVars, valueVars>>
    /\ pc = "resolve"
    /\ ti > Len(nodes)
    /\ rDocs' = [i \in DOMAIN nodes |-> docs[nodes[i]]]
    /\ pc' = "done"
    /\ UNCHANGED <<input, docs, Imported, Childs, nodes, bi, err, ti, typeMap, peerMap, q,
                   phase, visited>>

Next ==
    \/ BuildNode
    \/ Forest
    \/ ResolveRoot
    \/ WalkStep
    \/ EndWalk
    \/ EndPass
    \/ Finish
    \/ Return

\* no MergeExtensions, no CheckTypes and no validate is running
NoPanic == [name |-> "", msg |-> "ok"]
MergeIdle == typesIn = <<>> /\ typesOut = <<>> /\ todo = {} /\ panicked = NoPanic
CheckIdle == checkers = <<>> /\ ir = {} /\ ci = 0 /\ called = <<>> /\ errs = <<>>
ValidIdle ==
    /\ vir = <<>> /\ vdocs = {} /\ vdoc = Nil /\ vnames = {} /\ validated = <<>>
    /\ verrs = EmptyBag /\ vpanic = "ok"
ValueIdle ==
    /\ container = Nil /\ held = Nil /\ heldType = <<>> /\ original = Nil /\ runs = 0
    /\ cmp = Nil

\* ReduceImports is called with the batch ds
InitWith(ds) ==
    /\ MergeIdle
    /\ CheckIdle
    /\ ValidIdle
    /\ ValueIdle
    /\ input = ds
    /\ docs = ds
    /\ nodes = [i \in DOMAIN ds |-> i]
    /\ Imported = [i \in DOMAIN ds |-> FALSE]
    /\ Childs = [i \in DOMAIN ds |-> <<>>]
    /\ pc = "build"
    /\ bi = 1
    /\ err = NoErr
    /\ rDocs = <<>>
    /\ ti = 0
    /\ typeMap = EmptyMap
    /\ peerMap = EmptyMap
    /\ q = <<>>
    /\ phase = "walk"
    /\ visited = <<>>

-----------------------------------------------------------------------------
(* The batches ReduceImports is called with *)

\* the most import paths a directive of the enumerated batches has
MaxPaths == 2

ScalarDef(n) == Decl("SCALAR", FALSE, "Scalar", n, <<>>, NilList, <<>>, <<>>)
ObjectDef(n, ifaces, types) ==
    Decl("TYPE", FALSE, "Object", n, ifaces,
         FieldList([i \in DOMAIN types |-> Field("f", types[i], NilList)]), <<>>, <<>>)
ObjectExt(n, ifaces, types) ==
    [ObjectDef(n, ifaces, types) EXCEPT !.ext = TRUE, !.Tok = "EXTEND"]
InterfaceDef(n, types) ==
    Decl("INTERFACE", FALSE, "Interface", n, <<>>,
         FieldList([i \in DOMAIN types |-> Field("f", types[i], NilList)]), <<>>, <<>>)
UnionDef(n, members) == Decl("UNION", FALSE, "Union", n, <<>>, NilList, members, <<>>)
SchemaDef(types) ==
    Decl("SCHEMA", FALSE, "Schema", Nil, <<>>,
         FieldList([i \in DOMAIN types |-> Field("query", types[i], NilList)]), <<>>, <<>>)

Import(paths) == DirLit("import", paths)

\* the import literals of the enumerated batches: "x" names no document
PathLits == {"\"a\"", "\"b\"", "\"c\"", "\"x\""}

ImportChoices ==
    {<<>>} \cup {<<Import(ps)>> : ps \in SeqsUpTo(PathLits, MaxPaths)}

OneImportChoices ==
    {<<>>, <<DirLit("deprecated", <<>>)>>}
    \cup {<<Import(<<p>>)>> : p \in PathLits \cup {"b"}}
    \cup {<<DirLit("deprecated", <<>>), Import(<<p>>)>> : p \in PathLits \cup {"b"}}

\* three documents, each declaring one scalar, with the given directives
TrieBatch(da, db, dc) ==
    <<Document("a", da, <<ScalarDef("A")>>),
      Document("b", db, <<ScalarDef("B")>>),
      Document("c", dc, <<ScalarDef("C")>>)>>

\* the batch of TestCreateImportTries
TenDocs ==
    LET imp(ps) == <<Import(ps)>>
    IN  <<Document("a", imp(<<"e", "f">>), <<>>), Document("b", <<>>, <<>>),
          Document("c", imp(<<"g", "h">>), <<>>), Document("d", imp(<<"i", "j">>), <<>>),
          Document("e", <<>>, <<>>), Document("f", <<>>, <<>>),
          Document("g", imp(<<"e", "f">>), <<>>), Document("h", <<>>, <<>>),
          Document("i", imp(<<"e", "h">>), <<>>), Document("j", imp(<<"h", "f">>), <<>>)>>

\* the batch of TestPeerTypes
PeerTypes ==
    <<Document("graph", <<>>,
        <<InterfaceDef("Node", <<NonNullOf(Ident("ID"))>>),
          InterfaceDef("Connection",
                       <<Ident("Int"), ListOf(Ident("Node")), Ident("Boolean")>>)>>),
      Document("base", <<Import(<<"\"graph\"">>)>>,
        <<ObjectDef("User", <<>>, <<NonNullOf(Ident("ID")), Ident("String")>>),
          ObjectDef("UserConnection", <<"Connection">>, <<>>)>>)>>

\* the DiamondImport batch of TestReduceImports
Diamond ==
    <<Document("five", <<Import(<<"\"six\"", "\"two\"">>)>>,
        <<ObjectDef("T", <<"Doc">>, <<Ident("Version"), Ident("Obj")>>)>>),
      Document("two", <<Import(<<"\"thr\"">>)>>, <<InterfaceDef("Doc", <<Ident("Version")>>)>>),
      Document("six", <<Import(<<"\"thr\"">>)>>, <<ObjectDef("Obj", <<>>, <<Ident("Version")>>)>>),
      Document("thr", <<>>, <<ScalarDef("Version")>>)>>

TestBatches == {TenDocs, PeerTypes, Diamond}

\* the most declarations the imported document b of the enumerated batches has
MaxTypes == 2

\* sequences without repetition of at most n elements of S
RECURSIVE DistinctSeqs(_, _)
DistinctSeqs(S, n) ==
    IF n = 0 THEN {<<>>}
    ELSE {<<>>} \cup UNION {{<<x>> \o t : t \in DistinctSeqs(S \ {x}, n - 1)} : x \in S}

\* the declarations of the root a: a first one named A, and maybe a second
RootFirst ==
    {ObjectDef("A", <<>>, <<Ident("B")>>),
     ObjectDef("A", <<"B">>, <<NonNullOf(Ident("Int"))>>),
     [ObjectDef("A", <<>>, <<>>) EXCEPT
         !.Fields = FieldList(<<Field("f", ListOf(Ident("B")),
                                      FieldList(<<Field("x", Ident("C"), NilList)>>))>>)],
     UnionDef("A", <<"B", "C">>),
     ObjectExt("A", <<>>, <<Ident("B")>>),
     ObjectDef("A", <<>>, <<ListOf(NonNullOf(Ident("B")))>>)}
RootSecond ==
    {<<>>,
     <<ObjectExt("A", <<>>, <<Ident("C")>>)>>,
     <<ScalarDef("Int")>>,
     <<ScalarDef("Id")>>,
     <<SchemaDef(<<Ident("A")>>)>>}

\* the declarations of the imported documents b and c
PoolB ==
    {ObjectDef("B", <<>>, <<Ident("C")>>),
     ObjectExt("B", <<>>, <<Ident("C")>>),
     ScalarDef("B"),
     ObjectDef("D", <<>>, <<Ident("C")>>),
     ObjectExt("A", <<>>, <<Ident("D")>>)}
PoolC ==
    {ScalarDef("C"),
     ObjectDef("C", <<>>, <<Ident("D")>>),
     ObjectExt("B", <<>>, <<Ident("Int")>>),
     ObjectDef("B", <<>>, <<Ident("A")>>)}

\* the import structures of the typed batches: <<a's, b's, c's directives>>
Shapes ==
    {<<<<Import(<<"\"b\"">>)>>, <<Import(<<"\"c\"">>)>>, <<>>>>,
     <<<<Import(<<"\"b\"", "\"c\"">>)>>, <<>>, <<>>>>,
     <<<<Import(<<"\"c\"", "\"b\"">>)>>, <<>>, <<>>>>,
     <<<<Import(<<"\"b\"", "\"c\"">>)>>, <<Import(<<"\"c\"">>)>>, <<>>>>,
     <<<<Import(<<"\"b\"">>)>>, <<>>, <<>>>>,
     <<<<Import(<<"\"b\"">>)>>, <<Import(<<"\"b\"">>)>>, <<>>>>}

TypedBatch(sh, a1, a2, tb, tc) ==
    <<Document("a", sh[1], <<a1>> \o a2),
      Document("b", sh[2], tb),
      Document("c", sh[3], tc)>>

\* ReduceImports is called with a typed batch, or with a batch of the tests
Init ==
    \/ \E sh \in Shapes, a1 \in RootFirst, a2 \in RootSecond :
          \E tb \in DistinctSeqs(PoolB, MaxTypes), tc \in DistinctSeqs(PoolC, 1) :
              InitWith(TypedBatch(sh, a1, a2, tb, tc))
    \/ \E ds \in TestBatches : InitWith(ds)

Spec == Init /\ [][Next]_vars

\* ReduceImports is called with a batch of every import structure, or with
\* a batch of the tests
InitTries ==
    \/ \E da \in ImportChoices, db \in ImportChoices, dc \in OneImportChoices :
          InitWith(TrieBatch(da, db, dc))
    \/ \E ds \in TestBatches : InitWith(ds)

SpecTries == InitTries /\ [][Next]_vars

\* a root r that imports a, on the import cycle a -> b -> c -> a
Ring ==
    <<Document("r", <<Import(<<"\"a\"">>)>>, <<ScalarDef("R")>>),
      Document("a", <<Import(<<"\"b\"">>)>>, <<ScalarDef("A")>>),
      Document("b", <<Import(<<"\"c\"">>)>>, <<ScalarDef("B")>>),
      Document("c", <<Import(<<"\"a\"">>)>>, <<ScalarDef("C")>>)>>

\* ReduceImports runs on: a step it can take is taken
InitRing == InitTries \/ InitWith(Ring)
SpecTriesFair == InitRing /\ [][Next]_vars /\ WF_vars(Next)

-----------------------------------------------------------------------------
(* merge.go: MergeExtensions *)

\* if ext.Fields != nil { def.Fields.List = append(def.Fields.List,
\* ext.Fields.List...) }, for the field list of the kind: [panic, def]
appendFieldList(def, ext) ==
    IF ~ext.Fields.present THEN [panic |-> Ok, def |-> def]
    ELSE IF ~def.Fields.present THEN [panic |-> "nil pointer dereference", def |-> def]
    ELSE [panic |-> Ok, def |-> [def EXCEPT !.Fields.List = @ \o ext.Fields.List]]

\* the type assertions def.Type.(*T) and ext.Type.(*T) of a merge function
assertedAs(kind, def, ext) == def.kind = kind /\ ext.kind = kind
ConversionPanic(def) == [panic |-> "interface conversion", def |-> def]

mergeSchema(def, ext) ==
    IF ~assertedAs("Schema", def, ext) THEN ConversionPanic(def)
    ELSE appendFieldList(def, ext)

mergeObject(def, ext) ==
    IF ~assertedAs("Object", def, ext) THEN ConversionPanic(def)
    ELSE appendFieldList([def EXCEPT !.Interfaces = @ \o ext.Interfaces], ext)

mergeInterface(def, ext) ==
    IF ~assertedAs("Interface", def, ext) THEN ConversionPanic(def)
    ELSE appendFieldList(def, ext)

mergeUnion(def, ext) ==
    IF ~assertedAs("Union", def, ext) THEN ConversionPanic(def)
    ELSE [panic |-> Ok, def |-> [def EXCEPT !.Members = @ \o ext.Members]]

mergeEnum(def, ext) ==
    IF ~assertedAs("Enum", def, ext) THEN ConversionPanic(def)
    ELSE appendFieldList(def, ext)

mergeInput(def, ext) ==
    IF ~assertedAs("Input", def, ext) THEN ConversionPanic(def)
    ELSE appendFieldList(def, ext)

\* the tokens the switch of mergeDecls has a case for
ExtendableToks == {"SCHEMA", "SCALAR", "TYPE", "INTERFACE", "UNION", "ENUM", "INPUT"}

\* the function f the switch of mergeDecls chooses, applied
mergeWith(tok, def, ext) ==
    CASE tok = "SCHEMA" -> mergeSchema(def, ext)
      [] tok = "TYPE" -> mergeObject(def, ext)
      [] tok = "INTERFACE" -> mergeInterface(def, ext)
      [] tok = "UNION" -> mergeUnion(def, ext)
      [] tok = "ENUM" -> mergeEnum(def, ext)
      [] tok = "INPUT" -> mergeInput(def, ext)
      [] OTHER -> [panic |-> Ok, def |-> def]

\* the loop of mergeDecls over decls[i..], def being the running Definition
RECURSIVE foldExts(_, _, _)
foldExts(decls, i, def) ==
    IF i > Len(decls) THEN [panic |-> Ok, def |-> def]
    ELSE IF ~decls[i].ext THEN [panic |-> "", def |-> def]
    ELSE LET r == mergeWith(decls[1].Tok, def, decls[i])
         IN  IF r.panic # Ok THEN r
             ELSE foldExts(decls, i + 1,
                           [r.def EXCEPT !.Directives = @ \o decls[i].Directives])

\* a mergeDecls that takes the first declaration of any list
mergeDeclsFirst(decls) == [panic |-> Ok, decls |-> SubSeq(decls, 1, 1)]

\* mergeDecls: [panic, decls]; on a panic decls is the list as the panic
\* leaves it, its first declaration holding what was merged before
mergeDecls(decls) ==
    IF decls = <<>> THEN [panic |-> "index out of range", decls |-> decls]
    ELSE IF decls[1].Tok \notin ExtendableToks
    THEN [panic |-> "cannot be extended", decls |-> decls]
    ELSE IF decls[1].ext THEN [panic |-> "", decls |-> decls]
    ELSE LET r == foldExts(decls, 2, decls[1])
         IN  IF r.panic # Ok
             THEN [panic |-> r.panic, decls |-> [decls EXCEPT ![1] = r.def]]
             ELSE [panic |-> Ok, decls |-> <<r.def>>]

\* one iteration of the range loop of MergeExtensions, for any name the map
\* iteration may yield next
MergeName ==
    /\ UNCHANGED <<importVars, checkVars, validVars, valueVars>>
    /\ pc = "merge"
    /\ \E name \in todo :
          LET decls == typesOut[name]
              r == mergeDecls(decls)
          IN  /\ todo' = todo \ {name}
              /\ IF Len(decls) = 1
                 THEN UNCHANGED <<typesOut, pc, panicked>>
                 ELSE /\ typesOut' = [typesOut EXCEPT ![name] = r.decls]
                      /\ pc' = IF r.panic # Ok THEN "panic" ELSE "merge"
                      /\ panicked' = IF r.panic # Ok
                                     THEN [name |-> name, msg |-> r.panic]
                                     ELSE panicked
    /\ UNCHANGED typesIn

\* MergeExtensions returns types
MergeReturn ==
    /\ UNCHANGED <<importVars, checkVars, validVars, valueVars>>
    /\ pc = "merge"
    /\ todo = {}
    /\ pc' = "merged"
    /\ UNCHANGED mergeVars

NextMerge ==
    \/ MergeName
    \/ MergeReturn

\* no ReduceImports is running
ImportIdle ==
    /\ input = <<>> /\ docs = <<>> /\ nodes = <<>> /\ Imported = <<>> /\ Childs = <<>>
    /\ bi = 0 /\ err = NoErr /\ rDocs = <<>> /\ ti = 0 /\ typeMap = EmptyMap
    /\ peerMap = EmptyMap /\ q = <<>> /\ phase = "walk" /\ visited = <<>>

\* MergeExtensions is called with the map m
InitMergeWith(m) ==
    /\ ImportIdle
    /\ CheckIdle
    /\ ValidIdle
    /\ ValueIdle
    /\ pc = "merge"
    /\ typesIn = m
    /\ typesOut = m
    /\ todo = DOMAIN m
    /\ panicked = NoPanic

-----------------------------------------------------------------------------
(* The maps MergeExtensions is called with *)

\* the most extensions a list has, and the most members a declaration adds
MaxExts == 2
MaxMembers == 2

MergeKinds == {"Schema", "Scalar", "Object", "Interface", "Union", "Enum", "Input"}

\* the kinds whose members are a field list: root operations, fields, values
FieldListKinds == {"Schema", "Object", "Interface", "Enum", "Input"}

\* the i-th declaration of the list of name: one of kind with n members
\* (-1: without a member list) named by their place, and, when extras is 1,
\* one applied directive and, for an object, one implemented interface
MemberDecl(kind, name, i, n, extras) ==
    LET count == IF n < 0 THEN 0 ELSE n
        fields == IF kind \notin FieldListKinds \/ n < 0 THEN NilList
                  ELSE FieldList([k \in 1..n |-> Field(<<"member", i, k>>, Ident("Int"), NilList)])
        members == IF kind = "Union" THEN [k \in 1..count |-> <<"member", i, k>>] ELSE <<>>
        ifaces == IF kind = "Object" THEN [k \in 1..extras |-> <<"interface", i, k>>] ELSE <<>>
        dirs == [k \in 1..extras |-> <<"directive", i, k>>]
    IN  Decl(IF i = 1 THEN TokOf(kind) ELSE "EXTEND", i > 1, kind,
             IF kind = "Schema" THEN Nil ELSE name, ifaces, fields, members, dirs)

\* the member counts a declaration of a kind may have
MemberCounts(kind) ==
    IF kind = "Scalar" THEN {0}
    ELSE IF kind = "Union" THEN 0..MaxMembers
    ELSE -1..MaxMembers

\* the list of one Definition of a kind followed by extensions of the kind,
\* the i-th declaration with ns[i] members and xs[i] extras
DeclList(kind, name, ns, xs) ==
    [i \in DOMAIN ns |-> MemberDecl(kind, name, i, ns[i], xs[i])]

\* lists that are not one Definition followed by extensions of its kind
OtherLists(name) ==
    {<<MemberDecl("Object", name, 1, 1, 0), MemberDecl("Object", name, 1, 1, 1)>>,
     <<MemberDecl("Object", name, 2, 1, 0), MemberDecl("Object", name, 3, 1, 0)>>,
     <<MemberDecl("Object", name, 1, 1, 0), MemberDecl("Interface", name, 2, 1, 0)>>,
     <<MemberDecl("Directive", name, 1, 0, 0), MemberDecl("Directive", name, 2, 0, 1)>>,
     <<MemberDecl("Directive", name, 1, 0, 0), MemberDecl("Object", name, 1, 1, 0)>>,
     <<[MemberDecl("Object", name, 2, 1, 0) EXCEPT !.Tok = "TYPE"],
       MemberDecl("Object", name, 3, 1, 0)>>,
     <<MemberDecl("Directive", name, 1, 0, 0)>>,
     <<MemberDecl("Object", name, 2, 1, 0)>>,
     <<MemberDecl("Object", name, 1, -1, 0), MemberDecl("Object", name, 2, 1, 0),
       MemberDecl("Object", name, 1, 1, 0)>>}

\* the lists of the second name B of the maps
ListsOfB ==
    {<<MemberDecl("Scalar", "B", 1, 0, 0)>>,
     <<MemberDecl("Enum", "B", 1, 1, 0), MemberDecl("Enum", "B", 2, 1, 1)>>}

\* the map of the list l, under A or, for the schema, under schema, and of
\* the list lb of B
MergeMap(l, lb) ==
    LET key == IF l[1].name = Nil THEN "schema" ELSE "A"
    IN  [n \in {key, "B"} |-> IF n = "B" THEN lb ELSE l]

InitMerge ==
    \/ \E kind \in MergeKinds, len \in 1..(MaxExts + 1), lb \in ListsOfB :
          \E ns \in [1..len -> MemberCounts(kind)], xs \in [1..len -> {0, 1}] :
              InitMergeWith(MergeMap(DeclList(kind, "A", ns, xs), lb))
    \/ \E l \in OtherLists("A"), lb \in ListsOfB : InitMergeWith(MergeMap(l, lb))

SpecMerge == InitMerge /\ [][NextMerge]_vars

-----------------------------------------------------------------------------
(* validate.go: CheckTypes *)

\* the document of the registered types CheckTypes adds to the IR
builtins == "gqlc.compiler.types"

\* a loop body that keeps only what the last checker returned
replaceErrs(es, cerrs) == cerrs

\* if cerrs == nil { continue }; errs = append(errs, cerrs...)
appendErrs(es, cerrs) == IF cerrs = <<>> THEN es ELSE es \o cerrs

\* docs[builtins] = toDeclMap(Types)
CheckBegin ==
    /\ UNCHANGED <<importVars, mergeVars, validVars, valueVars>>
    /\ pc = "check"
    /\ ci = 0
    /\ ir' = ir \cup {builtins}
    /\ ci' = 1
    /\ UNCHANGED <<pc, checkers, called, errs>>

\* one iteration of the loop over the checkers
CheckStep ==
    /\ UNCHANGED <<importVars, mergeVars, validVars, valueVars>>
    /\ pc = "check"
    /\ ci \in 1..Len(checkers)
    /\ called' = Append(called, [checker |-> ci, docs |-> ir])
    /\ errs' = appendErrs(errs, checkers[ci])
    /\ ci' = ci + 1
    /\ UNCHANGED <<pc, checkers, ir>>

\* CheckTypes returns errs
CheckReturn ==
    /\ UNCHANGED <<importVars, mergeVars, validVars, valueVars>>
    /\ pc = "check"
    /\ ci > Len(checkers)
    /\ pc' = "checked"
    /\ UNCHANGED checkVars

NextCheck ==
    \/ CheckBegin
    \/ CheckStep
    \/ CheckReturn

\* the most checkers CheckTypes is given, and the most diagnostics of one
MaxCheckers == 3
MaxDiags == 2

\* the checkers: the i-th returns counts[i] diagnostics, named by their place
Checkers(counts) == [i \in DOMAIN counts |-> [k \in 1..counts[i] |-> <<i, k>>]]

InitCheck ==
    /\ ImportIdle
    /\ MergeIdle
    /\ ValidIdle
    /\ ValueIdle
    /\ pc = "check"
    /\ \E n \in 0..MaxCheckers : \E counts \in [1..n -> 0..MaxDiags] :
          checkers = Checkers(counts)
    /\ ir \in {{"a"}, {"a", "b"}, {}}
    /\ ci = 0
    /\ called = <<>>
    /\ errs = <<>>

SpecCheck == InitCheck /\ [][NextCheck]_vars

-----------------------------------------------------------------------------
(* spec/validator.go: the AST the validator reads *)

\* the wrappers of a type expression
IsIdent(t) == Len(t) = 1
IsList(t) == Len(t) > 1 /\ t[1] = "List"
IsNonNull(t) == Len(t) > 1 /\ t[1] = "NonNull"

\* A literal.  lit tells the Go type of the value: "Basic" is *ast.BasicLit,
\* "CBasic", "CList" and "CObj" are *ast.CompositeLit holding a BasicLit, a
\* ListLit and an ObjLit, "ListLit" and "ObjLit" are the bare *ast.ListLit and
\* *ast.ObjLit, "nil" is the nil value.  List holds the values of a list
\* literal, Fields the pairs of an object literal.
Lit(lit, kind, value, list, fields) ==
    [lit |-> lit, Kind |-> kind, Value |-> value, List |-> list, Fields |-> fields]
NoLit == Lit("nil", "", "", <<>>, <<>>)
BasicLit(kind, value) == Lit("Basic", kind, value, <<>>, <<>>)
CompositeBasic(kind, value) == Lit("CBasic", kind, value, <<>>, <<>>)
ListLit(values) == Lit("CList", "", "", values, <<>>)
ObjLit(pairs) == Lit("CObj", "", "", <<>>, pairs)
Pair(key, val) == [Key |-> key, Val |-> val]

\* ast.Arg, ast.DirectiveLit (Args is NilList when the literal has no call
\* expression), ast.InputValue and ast.Field with its directives
Arg(name, value) == [Name |-> name, Value |-> value]
Applied(name, args) == [Name |-> name, Args |-> args]
InputValue(name, type, default, dirs) ==
    [Name |-> name, Type |-> type, Default |-> default, Directives |-> dirs]
FieldDef(name, type, args, dirs) ==
    [Name |-> name, Type |-> type, Args |-> args, Directives |-> dirs]

\* a Directive declaration: the Definition of kind Directive, with its Locs
DirectiveDef(name, args, locs) ==
    [Locs |-> locs] @@ Decl("DIRECTIVE", FALSE, "Directive", name, <<>>, args, <<>>, <<>>)

\* typeDecls: the IR and the types of the document being validated.  An IR maps
\* each document (its name here) to its directives and its types.
typeDecls(ir_, doc) == [ir |-> ir_, types |-> ir_[doc].Types]

\* typeDecls.lookup; nil is the empty list.  compiler.Lookup ranges over the
\* documents of the IR and returns the list of the first that has the name;
\* in the IRs of the model no two documents declare the same name.
LookupDocs(items, name) == {d \in DOMAIN items.ir : name \in DOMAIN items.ir[d].Types}
lookupIn(items, name, d) ==
    IF name \in DOMAIN items.types THEN items.types[name]
    ELSE IF d = Nil THEN <<>> ELSE items.ir[d].Types[name]
lookup(items, name) ==
    lookupIn(items, name,
             IF LookupDocs(items, name) = {} THEN Nil
             ELSE CHOOSE d \in LookupDocs(items, name) : TRUE)

\* strings.HasPrefix(name, "__"), over the names of the model
DoubleUnderscore == {"__a", "__A"}
HasPrefix(name) == name \in DoubleUnderscore

\* unwrapType of the validator: the Ident under the wrappers.  Every wrapper of
\* the model wraps a type; the type of a field without type is NoType: nil.
specUnwrapType(t) == IF t = NoType THEN Nil ELSE t[Len(t)]

\* the result of a routine of the validator: the messages of the panics that
\* can end it (none when it returns: the order of a range over a map decides
\* which of several panics is met first), and the bag of the diagnostics it
\* appended to errs (the order of errs depends on the order of the maps)
Res(ps, es) == [panics |-> ps, errs |-> es]
NoErrs == Res({}, EmptyBag)
Diag(m) == Res({}, SetToBag({m}))
Panics(m) == Res({m}, EmptyBag)
DiagIf(c, m) == IF c THEN Diag(m) ELSE NoErrs

\* r, then s
Then(r, s) == IF r.panics # {} THEN r ELSE Res(s.panics, r.errs (+) s.errs)

\* the results rs[1], rs[2], ... in this order
RECURSIVE thenFrom(_, _)
thenFrom(rs, i) == IF i > Len(rs) THEN NoErrs ELSE Then(rs[i], thenFrom(rs, i + 1))
InOrder(rs) == thenFrom(rs, 1)

\* the results r[k] for the keys k of a map, in the order its range yields them
RECURSIVE sumErrs(_, _)
sumErrs(r, S) ==
    IF S = {} THEN EmptyBag
    ELSE LET k == CHOOSE k \in S : TRUE IN r[k].errs (+) sumErrs(r, S \ {k})
InMapOrder(r) ==
    IF \E k \in DOMAIN r : r[k].panics # {}
    THEN Res(UNION {r[k].panics : k \in DOMAIN r}, EmptyBag)
    ELSE Res({}, sumErrs(r, DOMAIN r))

NilDeref == "runtime error: invalid memory address or nil pointer dereference"
IndexOutOfRange == "runtime error: index out of range"
InterfaceConversion == "interface conversion"

\* the first element of a list named key, the zero value when there is none
FirstNamed(list, key) ==
    list[CHOOSE i \in DOMAIN list :
            list[i].Name = key /\ \A j \in 1..(i - 1) : list[j].Name # key]
CountNamed(list, key) == Cardinality({i \in DOMAIN list : list[i].Name = key})
NamesIn(list) == {list[i].Name : i \in DOMAIN list}

isInputType(id, items) ==
    LET decls == lookup(items, id)
    IN /\ decls # <<>>
       /\ ~decls[1].ext
       /\ decls[1].kind \in {"Scalar", "Enum", "Input"}

isOutputType(id, items) ==
    LET decls == lookup(items, id)
    IN /\ decls # <<>>
       /\ ~decls[1].ext
       /\ decls[1].kind \in {"Scalar", "Object", "Interface", "Union", "Enum"}

\* a comparison that holds two types equal only when they are written alike
compareNames(a, b, items) == [panics |-> {}, ok |-> a = b]

\* a comparison that looks at no type under a List or a NonNull
compareIdents(a, b, items) == [panics |-> {}, ok |-> IsIdent(a) /\ IsIdent(b) /\ a = b]

\* compareTypes: a <= b.  ok is the value returned, panics the panics that end
\* the call: lookup(...)[0] of an undeclared name, and the unchecked assertion
\* that the first declaration of a name is a TypeSpec.
RECURSIVE compareTypes(_, _, _)
compareTypes(a, b, items) ==
    IF IsIdent(a) /\ IsIdent(b) THEN
        IF a[1] = b[1] THEN [panics |-> {}, ok |-> TRUE]
        ELSE LET ad == lookup(items, a[1])
                 bd == lookup(items, b[1])
             IN IF ad = <<>> \/ bd = <<>> THEN [panics |-> {IndexOutOfRange}, ok |-> FALSE]
                ELSE IF ad[1].ext \/ bd[1].ext
                     THEN [panics |-> {InterfaceConversion}, ok |-> FALSE]
                ELSE IF ad[1].kind # "Object" THEN [panics |-> {}, ok |-> FALSE]
                ELSE [panics |-> {},
                      ok |-> CASE bd[1].kind = "Interface" ->
                                      bd[1].name \in Range(ad[1].Interfaces)
                               [] bd[1].kind = "Union" ->
                                      ad[1].name \in Range(bd[1].Members)
                               [] OTHER -> FALSE]
    ELSE IF IsList(a) /\ IsList(b) THEN compareTypes(Tail(a), Tail(b), items)
    ELSE IF IsNonNull(a)
         THEN compareTypes(Tail(a), IF IsNonNull(b) THEN Tail(b) ELSE b, items)
    ELSE [panics |-> {}, ok |-> FALSE]

-----------------------------------------------------------------------------
(* spec/validator.go: values, arguments and applied directives *)

\* the token kinds of the basic literals
LitKinds == {"INT", "FLOAT", "STRING", "BOOL", "NULL"}

NotCoercible(host, cName, kind, u) == Diag(<<"is not coercible to", host, cName, kind, u>>)

\* the coercion of the basic literal bLit to the type named u
coerceBasic(host, cName, bLit, u, items) ==
    CASE u = "Int" ->
            IF bLit.Kind # "INT" THEN NotCoercible(host, cName, bLit.Kind, u) ELSE NoErrs
      [] u = "Float" ->
            IF bLit.Kind \notin {"INT", "FLOAT"}
            THEN NotCoercible(host, cName, bLit.Kind, u) ELSE NoErrs
      [] u = "String" ->
            IF bLit.Kind # "STRING" THEN NotCoercible(host, cName, bLit.Kind, u) ELSE NoErrs
      [] u = "Boolean" ->
            IF bLit.Kind # "BOOL" THEN NotCoercible(host, cName, bLit.Kind, u) ELSE NoErrs
      [] u = "ID" ->
            IF bLit.Kind \notin {"STRING", "INT"}
            THEN NotCoercible(host, cName, bLit.Kind, u) ELSE NoErrs
      [] OTHER ->
            LET decls == lookup(items, u)
            IN IF decls = <<>> THEN NotCoercible(host, cName, bLit.Kind, u)
               ELSE IF decls[1].ext THEN NotCoercible(host, cName, bLit.Kind, u)
               ELSE IF decls[1].kind # "Enum" THEN NotCoercible(host, cName, bLit.Kind, u)
               ELSE IF ~decls[1].Fields.present THEN NotCoercible(host, cName, bLit.Kind, u)
               ELSE IF bLit.Value \in NamesIn(decls[1].Fields.List) THEN NoErrs
               ELSE Diag(<<"enum has no value named", host, cName, u, bLit.Value>>)

\* o := objFieldMap[f.Key.Name]; o.count += 1 and a := argMap[arg.Name.Name];
\* a.count += 1 add to a copy of the entry: the entry of the map keeps the
\* count it was stored with
objFieldCount(objFields, key) == 0
argCount(args, key) == 0

\* what validateObj hands to validateValue for the value of a pair: the
\* BasicLit, the ListLit or the ObjLit the CompositeLit of the pair holds
pairVal(val) ==
    CASE val.lit = "CBasic" -> [val EXCEPT !.lit = "Basic"]
      [] val.lit = "CList" -> [val EXCEPT !.lit = "ListLit"]
      [] val.lit = "CObj" -> [val EXCEPT !.lit = "ObjLit"]
      [] OTHER -> NoLit

\* validateValue and validateObj.  The result tells the diagnostics and the
\* panic; the literals of the IRs of the model are ones validateValue does not
\* rewrite (no INT given for a Float, no single literal given for a list).
FirstKeyed(objFields, key) ==
    objFields[CHOOSE j \in DOMAIN objFields :
                 objFields[j].Key = key /\ \A k \in 1..(j - 1) : objFields[k].Key # key]
RECURSIVE validateValue(_, _, _, _, _)
RECURSIVE validateObjFrom(_, _, _, _, _, _, _)
validateObjFrom(host, arg, fieldDefs, i, objFields, left, items) ==
    IF i > Len(fieldDefs)
    THEN InMapOrder([k \in left |-> Diag(<<"undefined field", host, arg, k>>)])
    ELSE LET fieldDef == fieldDefs[i]
             exists == fieldDef.Name \in left
             count == IF exists THEN objFieldCount(objFields, fieldDef.Name) ELSE 0
             absent == ~exists
             isNonNull == IsNonNull(fieldDef.Type)
             hasDefault == fieldDef.Default # NoLit
             rest == validateObjFrom(host, arg, fieldDefs, i + 1, objFields,
                                     left \ {fieldDef.Name}, items)
         IN IF count > 1
            THEN Then(Diag(<<"field must be unique", host, arg, fieldDef.Name>>), rest)
            ELSE IF absent = ~isNonNull THEN rest
            ELSE IF absent = (isNonNull /\ hasDefault) THEN rest
            ELSE IF absent = (isNonNull /\ ~hasDefault)
                 THEN Then(Diag(<<"non-null field must be present in", fieldDef.Name, host>>),
                           rest)
            ELSE Then(validateValue(host \o ":" \o arg, fieldDef.Name,
                                    pairVal(FirstKeyed(objFields, fieldDef.Name).Val),
                                    fieldDef.Type, items),
                      rest)

validateValue(host, cName, val, valType, items) ==
    IF IsIdent(valType) THEN
        IF val.lit \notin {"Basic", "CBasic", "CList", "CObj"}
        THEN Panics("spec: validateValue can only be provided an ast.BasicLit or ast.CompositeLit val")
        ELSE IF val.lit \in {"CList", "CObj"} THEN
            IF val.lit # "CObj"
            THEN Diag(<<"input object must be provided", host, cName>>)
            ELSE LET decls == lookup(items, valType[1])
                 IN IF decls = <<>>
                    THEN Diag(<<"undefined input object", host, cName, valType[1]>>)
                    ELSE IF decls[1].ext
                    THEN Diag(<<"could not find type spec for input object", host, cName,
                                valType[1]>>)
                    ELSE IF decls[1].kind # "Input"
                    THEN Diag(<<"is not an input object", host, cName, valType[1]>>)
                    ELSE IF ~decls[1].Fields.present THEN Panics(NilDeref)
                    ELSE validateObjFrom(host, cName, decls[1].Fields.List, 1, val.Fields,
                                         {val.Fields[j].Key : j \in DOMAIN val.Fields}, items)
        ELSE coerceBasic(host, cName, val, valType[1], items)
    ELSE IF IsList(valType) THEN
        IF val.lit \notin {"Basic", "CBasic", "CList", "CObj"}
        THEN Panics("compiler: validateValue can only be provided an ast.BasicLit or ast.CompositeLit val")
        ELSE IF val.lit = "CList"
        THEN InOrder([j \in DOMAIN val.List |->
                         validateValue(host, cName, val.List[j], Tail(valType), items)])
        ELSE validateValue(host, cName, val, Tail(valType), items)
    ELSE IF IsNonNull(valType) THEN
        IF IsIdent(Tail(valType)) /\ val.lit = "Basic" /\ val.Kind = "NULL"
        THEN Diag(<<"non-null arg cannot be the null value", host, cName>>)
        ELSE validateValue(host, cName, val, Tail(valType), items)
    ELSE NoErrs

validateObj(host, arg, fieldDefs, objFields, items) ==
    validateObjFrom(host, arg, fieldDefs, 1, objFields,
                    {objFields[j].Key : j \in DOMAIN objFields}, items)

\* validateArgs, from the i-th argument definition on; left are the keys of
\* argMap
RECURSIVE validateArgsFrom(_, _, _, _, _, _)
validateArgsFrom(host, argDefs, i, args, left, items) ==
    IF i > Len(argDefs)
    THEN InMapOrder([k \in left |-> Diag(<<"undefined arg", host, k>>)])
    ELSE LET argDef == argDefs[i]
             exists == argDef.Name \in left
             count == IF exists THEN argCount(args, argDef.Name) ELSE 0
             absent == ~exists
             isNonNull == IsNonNull(argDef.Type)
             hasDefault == argDef.Default # NoLit
             rest == validateArgsFrom(host, argDefs, i + 1, args, left \ {argDef.Name}, items)
         IN IF count > 1
            THEN Then(Diag(<<"arg must be unique in", argDef.Name, host>>), rest)
            ELSE IF absent = ~isNonNull THEN rest
            ELSE IF absent = (isNonNull /\ hasDefault) THEN rest
            ELSE IF absent = (isNonNull /\ ~hasDefault)
                 THEN Then(Diag(<<"non-null arg must be present in", argDef.Name, host>>), rest)
            ELSE Then(validateValue(host, argDef.Name, FirstNamed(args, argDef.Name).Value,
                                    argDef.Type, items),
                      rest)

validateArgs(host, argDefs, args, items) ==
    validateArgsFrom(host, argDefs, 1, args, NamesIn(args), items)

\* validateDirectives: the applied directives of one location
validateDirectives(directives, loc, items) ==
    InMapOrder([name \in NamesIn(directives) |->
        LET d == FirstNamed(directives, name)
            count == CountNamed(directives, name)
            decls == lookup(items, name)
        IN IF decls = <<>> THEN Diag(<<"undefined directive", name>>)
           ELSE IF decls[1].ext THEN NoErrs
           ELSE IF decls[1].kind # "Directive" THEN Panics(InterfaceConversion)
           ELSE IF loc \notin Range(decls[1].Locs)
           THEN Diag(<<"invalid location for directive", name, loc>>)
           ELSE Then(DiagIf(count > 1,
                            <<"directive cannot be applied more than once per location",
                              name, loc>>),
                     IF ~decls[1].Fields.present \/ ~d.Args.present THEN NoErrs
                     ELSE validateArgs(name, decls[1].Fields.List, d.Args.List, items))])

\* one argument of validateDirective or validateArgDefs: its type, its default
\* value, its directives
validateArgType(host, aname, f, what, msg, items) ==
    IF f.Type = NoType
    THEN Panics("spec: " \o host \o ":" \o aname \o ": " \o what \o " must have a type")
    ELSE DiagIf(~isInputType(specUnwrapType(f.Type), items),
                <<msg, host, aname, specUnwrapType(f.Type)>>)
validateDefault(host, aname, f, items) ==
    IF f.Default = NoLit THEN NoErrs
    ELSE validateValue(host, aname, f.Default, f.Type, items)
validateArgDirectives(f, items) ==
    IF Len(f.Directives) > 0
    THEN validateDirectives(f.Directives, "ARGUMENT_DEFINITION", items)
    ELSE NoErrs

\* validateDirective: a Directive declaration
validateDirective(name, directive, items) ==
    IF ~directive.Fields.present THEN NoErrs
    ELSE InOrder([i \in DOMAIN directive.Fields.List |->
        LET f == directive.Fields.List[i]
        IN InOrder(<<
             DiagIf(HasPrefix(f.Name),
                    <<"argument name cannot start with \"__\"", name, f.Name>>),
             validateArgType(name, f.Name, f, "directive argument",
                             "directive argument must be a valid input type, not", items),
             validateDefault(name, f.Name, f, items),
             InOrder([j \in DOMAIN f.Directives |->
                 DiagIf(f.Directives[j].Name = name,
                        <<"directive argument cannont reference its own directive definition",
                          name, f.Name>>)]),
             validateArgDirectives(f, items)>>)])

\* validateArgDefs: the arguments of a field, or the fields of an input object
validateArgDefs(name, args, items) ==
    InMapOrder([aname \in NamesIn(args) |->
        LET f == FirstNamed(args, aname)
        IN InOrder(<<
             DiagIf(CountNamed(args, aname) > 1, <<"argument must be unique", name, aname>>),
             DiagIf(HasPrefix(aname),
                    <<"argument name cannot start with \"__\"", name, aname>>),
             validateArgType(name, aname, f, "argument",
                             "argument type must be a valid input type, not", items),
             validateDefault(name, aname, f, items),
             validateArgDirectives(f, items)>>)])

\* validateFields: the fields of an object or an interface
validateFields(name, fields, items) ==
    InMapOrder([fname \in NamesIn(fields) |->
        LET f == FirstNamed(fields, fname)
        IN InOrder(<<
             DiagIf(CountNamed(fields, fname) > 1, <<"field must be unique", name, fname>>),
             DiagIf(HasPrefix(fname),
                    <<"field name cannot start with \"__\"", name, fname>>),
             IF f.Args.present THEN validateArgDefs(name \o ":" \o fname, f.Args.List, items)
             ELSE NoErrs,
             IF f.Type = NoType
             THEN Panics("compiler: " \o name \o ":" \o fname \o ": field must have a type")
             ELSE DiagIf(~isOutputType(specUnwrapType(f.Type), items),
                         <<"field type must be a valid output type, not", name, fname,
                           specUnwrapType(f.Type)>>),
             IF Len(f.Directives) > 0
             THEN validateDirectives(f.Directives, "FIELD_DEFINITION", items)
             ELSE NoErrs>>)])

-----------------------------------------------------------------------------
(* spec/validator.go: the declarations *)

\* checkName
checkName(typ, name) ==
    DiagIf(HasPrefix(name), <<"is an invalid name for type", name, typ>>)

\* validateSchema
validateSchema(schema, items) ==
    IF ~schema.Fields.present THEN NoErrs
    ELSE IF Len(schema.Fields.List) = 0
    THEN Diag(<<"schema: at minimum query object must be provided">>)
    ELSE Then(
        InOrder([i \in DOMAIN schema.Fields.List |->
            LET f == schema.Fields.List[i]
                decls == lookup(items, f.Type[1])
            IN IF f.Type = NoType
               THEN Panics("spec: schema:" \o f.Name \o ": must have type")
               ELSE IF IsList(f.Type)
               THEN Diag(<<"root operation return type can not be a list type", f.Name>>)
               ELSE IF IsNonNull(f.Type)
               THEN Diag(<<"root operation return type can not be a non null type", f.Name>>)
               ELSE IF decls = <<>>
               THEN Diag(<<"schema: unknown type", f.Name, f.Type[1]>>)
               ELSE IF decls[1].ext THEN NoErrs
               ELSE DiagIf(decls[1].kind # "Object",
                           <<"root operation return type must be an object type", f.Name>>)]),
        DiagIf("query" \notin NamesIn(schema.Fields.List),
               <<"schema: query object must be provided">>))

\* validateEnum
validateEnum(name, enum, items) ==
    IF ~enum.Fields.present THEN NoErrs
    ELSE IF Len(enum.Fields.List) = 0
    THEN Diag(<<"enum type must define one or more unique enum values", name>>)
    ELSE Then(
        InOrder([i \in DOMAIN enum.Fields.List |->
            validateDirectives(enum.Fields.List[i].Directives, "ENUM_VALUE", items)]),
        InMapOrder([v \in NamesIn(enum.Fields.List) |->
            DiagIf(CountNamed(enum.Fields.List, v) # 1,
                   <<"enum value must be unique", name, v>>)]))

\* validateUnion; the nil list of members and the empty one are both <<>>
validateUnion(name, union, items) ==
    InMapOrder([v \in Range(union.Members) |->
        LET decls == lookup(items, v)
        IN IF decls = <<>> THEN Diag(<<"undefined type", name, v>>)
           ELSE IF decls[1].ext THEN NoErrs
           ELSE Then(DiagIf(decls[1].kind # "Object",
                            <<"member type must be an object type", name, v>>),
                     DiagIf(Cardinality({i \in DOMAIN union.Members : union.Members[i] = v}) > 1,
                            <<"member type must be unique", name, v>>))])

\* validateInterface
validateInterface(name, inter, items) ==
    IF ~inter.Fields.present THEN NoErrs
    ELSE IF Len(inter.Fields.List) = 0
    THEN Diag(<<"interface type must one or more fields", name>>)
    ELSE validateFields(name, inter.Fields.List, items)

\* validateInput
validateInput(name, input_, items) ==
    IF ~input_.Fields.present THEN NoErrs
    ELSE IF Len(input_.Fields.List) = 0
    THEN Diag(<<"input object type must define one or more input fields", name>>)
    ELSE validateArgDefs(name, input_.Fields.List, items)

\* the check of the arguments of an interface field against aMap, the types of
\* the arguments of the object field, from the i-th argument on; left are the
\* keys of aMap
RECURSIVE interArgsFrom(_, _, _, _, _, _, _)
interArgsFrom(objName, fname, aMap, left, iargs, i, items) ==
    IF i > Len(iargs)
    THEN InMapOrder([oaName \in left |->
            DiagIf(IsNonNull(aMap[oaName]),
                   <<"additional arguments to interface field implementation must be non-null",
                     objName, fname, oaName>>)])
    ELSE LET ia == iargs[i]
             l == compareTypes(aMap[ia.Name], ia.Type, items)
             r == compareTypes(ia.Type, aMap[ia.Name], items)
         IN IF ia.Name \notin left
            THEN Then(Diag(<<"object field is missing interface field argument",
                             objName, fname, ia.Name>>),
                      interArgsFrom(objName, fname, aMap, left, iargs, i + 1, items))
            ELSE IF l.panics # {} THEN Res(l.panics, EmptyBag)
            ELSE IF r.panics # {} THEN Res(r.panics, EmptyBag)
            ELSE Then(DiagIf(~(l.ok /\ r.ok),
                             <<"object argument and interface argument must be the same type",
                               objName, fname, ia.Name>>),
                      interArgsFrom(objName, fname, aMap, left \ {ia.Name}, iargs, i + 1,
                                    items))

\* validateInterfaceFields; objFields maps the names of the fields of the
\* object to the fields
validateInterfaceFields(objName, interName, objFields, interFields, items) ==
    InOrder([i \in DOMAIN interFields |->
        LET interField == interFields[i]
            fname == interField.Name
            objField == objFields[fname]
            a == objField.Type
            b == interField.Type
            oid == specUnwrapType(a)
            iid == specUnwrapType(b)
            c == compareTypes(a, b, items)
        IN IF fname \notin DOMAIN objFields
           THEN Diag(<<"object type must include field", objName, interName, fname>>)
           ELSE IF oid = Nil \/ iid = Nil THEN Panics(NilDeref)
           ELSE IF lookup(items, oid) = <<>> \/ lookup(items, iid) = <<>>
           THEN Then(DiagIf(lookup(items, oid) = <<>>,
                            <<"undefined return type", objName, fname, oid>>),
                     DiagIf(lookup(items, iid) = <<>>,
                            <<"undefined return type", interName, fname, iid>>))
           ELSE IF c.panics # {} THEN Res(c.panics, EmptyBag)
           ELSE Then(DiagIf(~c.ok,
                            <<"object field type must be a sub-type of interface field type",
                              objName, fname>>),
                     IF ~interField.Args.present THEN NoErrs
                     ELSE IF ~objField.Args.present
                     THEN Diag(<<"object field must include the same argument definitions that the interface field has",
                                 objName, fname>>)
                     ELSE interArgsFrom(objName, fname,
                              [n \in NamesIn(objField.Args.List) |->
                                  FirstNamed(objField.Args.List, n).Type],
                              NamesIn(objField.Args.List), interField.Args.List, 1, items))])

\* the loop over the interfaces of an object or of an extension of one
validateInterfaces(name, interfaces, fMap, items) ==
    InOrder([i \in DOMAIN interfaces |->
        LET decls == lookup(items, interfaces[i])
        IN IF decls = <<>> THEN Diag(<<"undefined interface", name, interfaces[i]>>)
           ELSE IF decls[1].ext THEN NoErrs
           ELSE IF decls[1].kind # "Interface"
           THEN Diag(<<"non-interface type can not be used as interface", name, decls[1].name>>)
           ELSE IF ~decls[1].Fields.present THEN NoErrs
           ELSE validateInterfaceFields(name, interfaces[i], fMap, decls[1].Fields.List, items)])

\* the map validateFields returns: each name with its first field
fieldMap(fields) == [n \in NamesIn(fields) |-> FirstNamed(fields, n)]

\* validateObject
validateObject(name, object, items) ==
    IF ~object.Fields.present THEN NoErrs
    ELSE IF Len(object.Fields.List) = 0
    THEN Diag(<<"an object type must define one or more fields", name>>)
    ELSE Then(validateFields(name, object.Fields.List, items),
              validateInterfaces(name, object.Interfaces, fieldMap(object.Fields.List), items))

\* validateType: the routine of the kind, the token and the directive location
LocOf(kind) ==
    CASE kind = "Schema" -> "SCHEMA"
      [] kind = "Scalar" -> "SCALAR"
      [] kind = "Enum" -> "ENUM"
      [] kind = "Union" -> "UNION"
      [] kind = "Interface" -> "INTERFACE"
      [] kind = "Input" -> "INPUT_OBJECT"
      [] kind = "Object" -> "OBJECT"
      [] OTHER -> "NoPos"
validateType(ts, items) ==
    CASE ts.kind = "Schema" -> validateSchema(ts, items)
      [] ts.kind = "Scalar" -> NoErrs
      [] ts.kind = "Enum" -> validateEnum(ts.name, ts, items)
      [] ts.kind = "Union" -> validateUnion(ts.name, ts, items)
      [] ts.kind = "Interface" -> validateInterface(ts.name, ts, items)
      [] ts.kind = "Input" -> validateInput(ts.name, ts, items)
      [] ts.kind = "Object" -> validateObject(ts.name, ts, items)
      [] ts.kind = "Directive" -> validateDirective(ts.name, ts, items)
      [] OTHER -> NoErrs

\* the names two lists have both, once for each pair of equal names
Collisions(og, ex, msg, name) ==
    InOrder([i \in DOMAIN og |->
        InOrder([j \in DOMAIN ex |-> DiagIf(og[i] = ex[j], <<msg, name, og[i]>>)])])
NameSeq(list) == [i \in DOMAIN list |-> list[i].Name]

\* the fMap of the Object case of validateExtend: the fields of the original
\* definition (the last of each name), then the fields of the extension the
\* definition has not
lastNamed(list, key) ==
    list[CHOOSE i \in DOMAIN list :
            list[i].Name = key /\ \A j \in (i + 1)..Len(list) : list[j].Name # key]
extendedFields(og, ex) ==
    [n \in NamesIn(og) \cup NamesIn(ex) |->
        IF n \in NamesIn(og) THEN lastNamed(og, n) ELSE FirstNamed(ex, n)]

\* validateExtend, up to the directives of the extension
extendKind(ogts, exts, name, items) ==
    CASE exts.kind = "Schema" -> NoErrs
      [] exts.kind = "Scalar" -> NoErrs
      [] exts.kind = "Object" ->
            IF ~ogts.Fields.present THEN NoErrs
            ELSE InOrder(<<
                IF exts.Fields.present
                THEN Then(validateFields("extend:object:" \o name, exts.Fields.List, items),
                          InMapOrder([efName \in NamesIn(exts.Fields.List) |->
                              DiagIf(efName \in NamesIn(ogts.Fields.List),
                                     <<"field definition already exists in original object definition",
                                       "extend:object:" \o name, efName>>)]))
                ELSE NoErrs,
                validateInterfaces("extend:object:" \o name, exts.Interfaces,
                    extendedFields(ogts.Fields.List,
                                   IF exts.Fields.present THEN exts.Fields.List ELSE <<>>),
                    items)>>)
      [] exts.kind = "Interface" ->
            IF ~exts.Fields.present \/ ~ogts.Fields.present THEN NoErrs
            ELSE Then(validateInterface("extend:interface:" \o name, exts, items),
                      Collisions(NameSeq(ogts.Fields.List), NameSeq(exts.Fields.List),
                                 "field already exists in original interface definition",
                                 "extend:interface:" \o name))
      [] exts.kind = "Union" ->
            IF exts.Members = <<>> \/ ogts.Members = <<>> THEN NoErrs
            ELSE Then(validateUnion("extend:union:" \o name, exts, items),
                      Collisions(ogts.Members, exts.Members,
                                 "union member already exists in original union definition",
                                 "extend:union:" \o name))
      [] exts.kind = "Enum" ->
            IF ~exts.Fields.present \/ ~ogts.Fields.present THEN NoErrs
            ELSE Then(validateEnum("extend:enum:" \o name, exts, items),
                      Collisions(NameSeq(ogts.Fields.List), NameSeq(exts.Fields.List),
                                 "enum value already exists in original enum definition",
                                 "extend:enum:" \o name))
      [] exts.kind = "Input" ->
            IF ~exts.Fields.present \/ ~ogts.Fields.present THEN NoErrs
            ELSE Then(validateInput("extend:input:" \o name, exts, items),
                      Collisions(NameSeq(ogts.Fields.List), NameSeq(exts.Fields.List),
                                 "field definition already exists in original input definition",
                                 "extend:input:" \o name))
      [] OTHER -> NoErrs

\* the word of a kind in the names and the diagnostics of validateExtend
kindWord(kind) ==
    CASE kind = "Schema" -> "schema"
      [] kind = "Scalar" -> "scalar"
      [] kind = "Object" -> "object"
      [] kind = "Interface" -> "interface"
      [] kind = "Union" -> "union"
      [] kind = "Enum" -> "enum"
      [] kind = "Input" -> "input"
      [] OTHER -> ""

\* the name validateExtend gives the extension in the last diagnostics
extendName(exts, name) ==
    IF exts.kind \in {"Object", "Interface", "Union", "Enum", "Input"}
    THEN "extend:" \o kindWord(exts.kind) \o ":" \o name
    ELSE name

\* validateExtend
validateExtend(ogts, exts, items) ==
    LET name == IF exts.name = Nil THEN "schema" ELSE exts.name
    IN IF exts.kind \notin {"Schema", "Scalar", "Object", "Interface", "Union", "Enum", "Input"}
       THEN Diag(<<"type extensions are not supported for this type", exts.name>>)
       ELSE IF ogts.kind # exts.kind
       THEN Diag(<<"original type definition must be a " \o kindWord(exts.kind), name>>)
       ELSE InOrder(<<
               extendKind(ogts, exts, name, items),
               validateDirectives(exts.Directives, LocOf(exts.kind), items),
               Collisions(NameSeq(ogts.Directives), NameSeq(exts.Directives),
                          "directive is already applied to original type definition",
                          extendName(exts, name))>>)

\* the body of the loop of validate over the names of a document: the
\* Definition, then the Extensions
validateDecls(name, decls, items) ==
    IF decls[1].ext THEN Diag(<<"missing type declaration for", name>>)
    ELSE InOrder(<<
            validateType(decls[1], items),
            IF LocOf(decls[1].kind) # "SCHEMA"
            THEN checkName(TokOf(decls[1].kind), decls[1].name) ELSE NoErrs,
            IF LocOf(decls[1].kind) # "NoPos"
            THEN validateDirectives(decls[1].Directives, LocOf(decls[1].kind), items)
            ELSE NoErrs,
            InOrder([i \in 1..(Len(decls) - 1) |->
                IF ~decls[i + 1].ext
                THEN Diag(<<"cannot have more than one type definition for", name>>)
                ELSE validateExtend(decls[1], decls[i + 1], items)])>>)

\* the declarations the body validates: the Definition and each Extension,
\* when the list starts with a Definition
IsExt(d) == d.ext
Validated(doc, decls) ==
    IF decls[1].ext THEN <<>>
    ELSE LET ds == <<decls[1]>> \o SelectSeq(Tail(decls), IsExt)
         IN [i \in DOMAIN ds |->
                [doc |-> doc, name |-> ds[i].name, kind |-> ds[i].kind, ext |-> ds[i].ext]]

-----------------------------------------------------------------------------
(* spec/validator.go: validate *)

\* for doc, types := range ir: the next document
ValidateDoc ==
    /\ UNCHANGED <<importVars, mergeVars, checkVars, valueVars>>
    /\ pc = "validate"
    /\ vdoc = Nil
    /\ \E d \in vdocs :
          /\ vdoc' = d
          /\ vdocs' = vdocs \ {d}
          /\ vnames' = DOMAIN vir[d].Types
    /\ UNCHANGED <<pc, vir, validated, verrs, vpanic>>

\* for name, decls := range types: one pass of the body
ValidateName ==
    /\ UNCHANGED <<importVars, mergeVars, checkVars, valueVars>>
    /\ pc = "validate"
    /\ vdoc # Nil
    /\ \E name \in vnames :
          LET decls == vir[vdoc].Types[name]
              r == validateDecls(name, decls, typeDecls(vir, vdoc))
          IN /\ vnames' = vnames \ {name}
             /\ IF r.panics # {}
                THEN /\ pc' = "vpanic"
                     /\ vpanic' \in r.panics
                     /\ UNCHANGED <<validated, verrs>>
                ELSE /\ verrs' = verrs (+) r.errs
                     /\ validated' = validated \o Validated(vdoc, decls)
                     /\ UNCHANGED <<pc, vpanic>>
    /\ UNCHANGED <<vir, vdocs, vdoc>>

\* validateDirectives(doc.Directives, ast.DirectiveLocation_DOCUMENT, ...)
ValidateDocDirectives ==
    /\ UNCHANGED <<importVars, mergeVars, checkVars, valueVars>>
    /\ pc = "validate"
    /\ vdoc # Nil
    /\ vnames = {}
    /\ LET r == validateDirectives(vir[vdoc].Directives, "DOCUMENT", typeDecls(vir, vdoc))
       IN IF r.panics # {}
          THEN /\ pc' = "vpanic"
               /\ vpanic' \in r.panics
               /\ UNCHANGED verrs
          ELSE /\ verrs' = verrs (+) r.errs
               /\ UNCHANGED <<pc, vpanic>>
    /\ vdoc' = Nil
    /\ UNCHANGED <<vir, vdocs, vnames, validated>>

\* validate returns errs
ValidateReturn ==
    /\ UNCHANGED <<importVars, mergeVars, checkVars, valueVars>>
    /\ pc = "validate"
    /\ vdoc = Nil
    /\ vdocs = {}
    /\ pc' = "validated"
    /\ UNCHANGED validVars

NextValidate ==
    \/ ValidateDoc
    \/ ValidateName
    \/ ValidateDocDirectives
    \/ ValidateReturn

\* validate is called with the IR
InitValidateWith(ir_) ==
    /\ ImportIdle
    /\ MergeIdle
    /\ CheckIdle
    /\ ValueIdle
    /\ pc = "validate"
    /\ vir = ir_
    /\ vdocs = DOMAIN ir_
    /\ vdoc = Nil
    /\ vnames = {}
    /\ validated = <<>>
    /\ verrs = EmptyBag
    /\ vpanic = Ok

-----------------------------------------------------------------------------
(* The IRs validate is called with *)

\* the most arguments an applied directive supplies, and the most pairs of an
\* object literal
MaxArgs == 2
MaxPairs == 2

\* toDeclMap: the declarations of a document by name, in their order; the
\* schema is kept under "schema"
keyOf(d) == IF d.name = Nil THEN "schema" ELSE d.name
RECURSIVE declsNamed(_, _, _)
declsNamed(types, n, i) ==
    IF i > Len(types) THEN <<>>
    ELSE (IF keyOf(types[i]) = n THEN <<types[i]>> ELSE <<>>) \o declsNamed(types, n, i + 1)
toDeclMap(types) == [n \in {keyOf(types[i]) : i \in DOMAIN types} |-> declsNamed(types, n, 1)]

\* the document of the registered types, as CheckTypes adds it
BuiltinTypes == toDeclMap(<<ScalarDef("Int"), ScalarDef("String")>>)

\* the IR of the document "a" and the registered types
IRof(dirs, types) ==
    ("a" :> [Directives |-> dirs, Types |-> toDeclMap(types)])
    @@ (builtins :> [Directives |-> <<>>, Types |-> BuiltinTypes])

Extension(d) == [d EXCEPT !.ext = TRUE, !.Tok = "EXTEND"]
IntField(name) == FieldDef(name, Ident("Int"), NilList, <<>>)
ObjectType(n, ifaces, fields, dirs) ==
    Decl("TYPE", FALSE, "Object", n, ifaces, FieldList(fields), <<>>, dirs)
InterfaceType(n, fields) ==
    Decl("INTERFACE", FALSE, "Interface", n, <<>>, FieldList(fields), <<>>, <<>>)
ScalarType(n, dirs) == Decl("SCALAR", FALSE, "Scalar", n, <<>>, NilList, <<>>, dirs)
InputType(n, fields) ==
    Decl("INPUT", FALSE, "Input", n, <<>>, FieldList(fields), <<>>, <<>>)

\* documents of declarations of several kinds, in an order of the document:
\* sel tells which of the six declarations the document has
KindPool ==
    <<ObjectType("O", <<"I">>, <<IntField("f")>>, <<>>),
      Extension(ObjectType("O", <<>>, <<IntField("g")>>, <<>>)),
      DirectiveDef("d", NilList, <<"SCALAR">>),
      InterfaceType("I", <<IntField("f")>>),
      ScalarType("S", <<>>),
      SchemaDef(<<Ident("O")>>)>>
RECURSIVE pick(_, _, _)
pick(pool, sel, i) ==
    IF i > Len(pool) THEN <<>>
    ELSE (IF i \in sel THEN <<pool[i]>> ELSE <<>>) \o pick(pool, sel, i + 1)
KindsIR(sel) == IRof(<<>>, pick(KindPool, sel, 1))

\* a scalar S to which the directive named dname is applied with the
\* arguments args; d is a directive of the scalars with an argument x of the
\* type argType, S2 is another scalar, u is not declared
ArgPool ==
    {Arg("x", BasicLit("INT", "1")), Arg("x", BasicLit("STRING", "s")),
     Arg("y", BasicLit("INT", "1"))}
AppliedIR(dname, argType, args) ==
    IRof(<<>>,
         <<DirectiveDef("d", FieldList(<<InputValue("x", argType, NoLit, <<>>)>>),
                        <<"SCALAR">>),
           ScalarType("S", <<Applied(dname, args)>>),
           ScalarType("S2", <<>>)>>)

\* an object O that implements the interface I: the field f of I has an
\* argument a of the type x, the field f of O an argument a of the type y and
\* the return type ret; U1 and U2 are not declared
ArgTypes == {Ident("Int"), Ident("String"), Ident("U1"), Ident("U2"), NonNullOf(Ident("Int"))}
ImplementsIR(x, y, ret) ==
    IRof(<<>>,
         <<InterfaceType("I",
              <<FieldDef("f", Ident("Int"),
                         FieldList(<<InputValue("a", x, NoLit, <<>>)>>), <<>>)>>),
           ObjectType("O", <<"I">>,
              <<FieldDef("f", ret,
                         FieldList(<<InputValue("a", y, NoLit, <<>>)>>), <<>>)>>, <<>>)>>)

\* a directive d whose argument x, of the input object type In, has the object
\* literal of the pairs as its default value
PairPool ==
    {Pair("a", CompositeBasic("INT", "1")), Pair("a", CompositeBasic("STRING", "s")),
     Pair("b", CompositeBasic("STRING", "s")), Pair("c", CompositeBasic("INT", "1"))}
LiteralIR(pairs) ==
    IRof(<<>>,
         <<InputType("In", <<InputValue("a", Ident("Int"), NoLit, <<>>),
                             InputValue("b", Ident("String"), NoLit, <<>>)>>),
           DirectiveDef("d", FieldList(<<InputValue("x", Ident("In"), ObjLit(pairs), <<>>)>>),
                        <<"SCALAR">>)>>)

\* a directive d whose argument x, of the type Int, has a basic literal as its
\* default value
DefaultIR(kind) ==
    IRof(<<>>,
         <<DirectiveDef("d", FieldList(<<InputValue("x", Ident("Int"),
                                                    BasicLit(kind, "v"), <<>>)>>),
                        <<"SCALAR">>)>>)

\* an object O that implements the interface I: the field f of I has the
\* arguments iargs (or no argument list), the field f of O those of the
\* arguments a: Int, b: Int!, c: Int that sel tells
ExtraArgPool ==
    <<InputValue("a", Ident("Int"), NoLit, <<>>),
      InputValue("b", NonNullOf(Ident("Int")), NoLit, <<>>),
      InputValue("c", Ident("Int"), NoLit, <<>>)>>
InterArgs == {NilList, FieldList(<<>>), FieldList(<<ExtraArgPool[1]>>)}
ExtraArgsIR(iargs, sel) ==
    IRof(<<>>,
         <<InterfaceType("I", <<FieldDef("f", Ident("Int"), iargs, <<>>)>>),
           ObjectType("O", <<"I">>,
              <<FieldDef("f", Ident("Int"), FieldList(pick(ExtraArgPool, sel, 1)), <<>>)>>,
              <<>>)>>)

\* a schema whose root operations carry the given names, each of the object
\* type O
MaxRootOps == 2
RootOpNames == {"query", "mutation"}
SchemaIR(names) ==
    IRof(<<>>,
         <<[SchemaDef(<<>>) EXCEPT
               !.Fields = FieldList([i \in DOMAIN names |->
                                        Field(names[i], Ident("O"), NilList)])],
           ObjectType("O", <<>>, <<IntField("f")>>, <<>>)>>)

\* an object O that implements the interface I { f: Int }, with the given
\* field list: none, an empty one, one without f, or f of some return type
RetTypes ==
    {Ident("Int"), Ident("String"), NonNullOf(Ident("Int")), ListOf(Ident("Int")),
     Ident("U1")}
ObjFieldLists ==
    {NilList, FieldList(<<>>), FieldList(<<IntField("g")>>)}
    \cup {FieldList(<<FieldDef("f", t, NilList, <<>>)>>) : t \in RetTypes}
ImplFieldsIR(fields) ==
    IRof(<<>>,
         <<InterfaceType("I", <<IntField("f")>>),
           [ObjectType("O", <<"I">>, <<>>, <<>>) EXCEPT !.Fields = fields]>>)

\* a Definition of the given kind and an Extension of it: base and added are
\* the names of the root operations, fields, members or values of the two.
\* A, B and C are object types; the root operations are of the type A.
ExtendKinds == {"Schema", "Object", "Interface", "Union", "Enum", "Input"}
PartNames(kind) ==
    IF kind = "Schema" THEN <<"query", "mutation", "subscription">> ELSE <<"A", "B", "C">>
BaseParts == {<<1>>, <<1, 2>>}
AddedParts == {<<1>>, <<2>>, <<3>>, <<1, 3>>, <<2, 1>>}
PartsOf(kind, idx) ==
    [i \in DOMAIN idx |->
        LET n == PartNames(kind)[idx[i]]
        IN CASE kind = "Schema" -> Field(n, Ident("A"), NilList)
             [] kind = "Input" -> InputValue(n, Ident("Int"), NoLit, <<>>)
             [] kind = "Union" -> n
             [] OTHER -> IntField(n)]
DeclOf(kind, idx) ==
    Decl(TokOf(kind), FALSE, kind, IF kind = "Schema" THEN Nil ELSE "T", <<>>,
         IF kind = "Union" THEN NilList ELSE FieldList(PartsOf(kind, idx)),
         IF kind = "Union" THEN PartsOf(kind, idx) ELSE <<>>, <<>>)
ExtendIR(kind, base, added) ==
    IRof(<<>>,
         <<DeclOf(kind, base), Extension(DeclOf(kind, added))>>
         \o (IF kind \in {"Schema", "Union"}
             THEN <<ObjectType("A", <<>>, <<IntField("x")>>, <<>>)>> ELSE <<>>)
         \o (IF kind = "Union"
             THEN <<ObjectType("B", <<>>, <<IntField("x")>>, <<>>),
                    ObjectType("C", <<>>, <<IntField("x")>>, <<>>)>>
             ELSE <<>>))

InitValidate ==
    \/ \E kind \in ExtendKinds : \E base \in BaseParts : \E added \in AddedParts :
          InitValidateWith(ExtendIR(kind, base, added))
    \/ \E fields \in ObjFieldLists : InitValidateWith(ImplFieldsIR(fields))
    \/ \E names \in SeqsUpTo(RootOpNames, MaxRootOps) : InitValidateWith(SchemaIR(names))
    \/ \E iargs \in InterArgs : \E sel \in SUBSET (1..Len(ExtraArgPool)) :
          InitValidateWith(ExtraArgsIR(iargs, sel))
    \/ \E sel \in SUBSET (1..Len(KindPool)) : InitValidateWith(KindsIR(sel))
    \/ \E dname \in {"d", "S2", "u"} :
       \E argType \in {Ident("Int"), NonNullOf(Ident("Int"))} :
       \E args \in {NilList} \cup {FieldList(s) : s \in SeqsUpTo(ArgPool, MaxArgs)} :
          InitValidateWith(AppliedIR(dname, argType, args))
    \/ \E x \in ArgTypes : \E y \in ArgTypes : \E ret \in {Ident("Int"), NoType} :
          InitValidateWith(ImplementsIR(x, y, ret))
    \/ \E pairs \in SeqsUpTo(PairPool, MaxPairs) : InitValidateWith(LiteralIR(pairs))
    \/ \E kind \in LitKinds : InitValidateWith(DefaultIR(kind))

SpecValidate == InitValidate /\ [][NextValidate]_vars

-----------------------------------------------------------------------------
(* spec/validator.go: what validateValue does to the literal it validates *)

\* the most validations of one container
MaxRuns == 3

\* the literal of the tree h at the path p of list indices, and h with the
\* literal at p replaced by v
RECURSIVE At(_, _)
At(h, p) == IF p = <<>> THEN h ELSE At(h.List[Head(p)], Tail(p))
RECURSIVE SetAt(_, _, _)
SetAt(h, p, v) ==
    IF p = <<>> THEN v
    ELSE [h EXCEPT !.List = [@ EXCEPT ![Head(p)] = SetAt(@, Tail(p), v)]]
Ones(n) == [i \in 1..n |-> 1]

\* an INT literal to which ".0" is added at every validation
floatLitAlways(bLit) == [bLit EXCEPT !.Kind = "FLOAT", !.Value = @ \o ".0"]

\* case "Float": bLit.Value += ".0" for an INT, bLit.Kind = token.Token_FLOAT
floatLit(bLit) ==
    [bLit EXCEPT !.Kind = "FLOAT",
                 !.Value = IF bLit.Kind = "INT" THEN @ \o ".0" ELSE @]

\* "Coerce single lit to list": what the container c holds after it, by the
\* type of c.  An *ast.InputValue and an *ast.Arg hold a list of the literal
\* they held; an *ast.ObjLit_Pair holds a list of its basic literal, after an
\* earlier coercion a list without elements; any other c matches no case.
coerceToList(ck, h) ==
    CASE ck \in {"InputValue", "Arg"} -> ListLit(<<h>>)
      [] ck = "Pair" /\ h.lit = "CBasic" -> ListLit(<<[h EXCEPT !.lit = "Basic"]>>)
      [] ck = "Pair" -> ListLit(<<>>)
      [] OTHER -> h

\* validateValue(host, cName, c, val, valType, ...) as to the literals: h is
\* what c holds, p the place of val in it.  The result tells what c holds
\* afterwards (h) and how many lists were put around it (w).  An object
\* literal is left as it is: validateObj hands none of its pairs on.
RECURSIVE coerce(_, _, _, _)
RECURSIVE coerceElems(_, _, _, _, _, _)
coerceElems(ck, h, p, j, inner, w) ==
    IF j > Len(At(h, Ones(w) \o p).List) THEN [h |-> h, w |-> w]
    ELSE LET r == coerce(ck, h, Ones(w) \o p \o <<j>>, inner)
         IN coerceElems(ck, r.h, p, j + 1, inner, w + r.w)
coerce(ck, h, p, valType) ==
    LET val == At(h, p)
    IN IF IsIdent(valType) THEN
           IF /\ val.lit \in {"Basic", "CBasic"}
              /\ valType[1] = "Float"
              /\ val.Kind \in {"INT", "FLOAT"}
           THEN [h |-> SetAt(h, p, floatLit(val)), w |-> 0]
           ELSE [h |-> h, w |-> 0]
       ELSE IF IsList(valType) THEN
           IF val.lit = "CList" THEN coerceElems(ck, h, p, 1, Tail(valType), 0)
           ELSE LET r == coerce(ck, h, p, Tail(valType))
                IN [h |-> coerceToList(ck, r.h),
                    w |-> r.w + (IF coerceToList(ck, r.h) = r.h THEN 0 ELSE 1)]
       ELSE IF IsNonNull(valType) THEN
           IF IsIdent(Tail(valType)) /\ val.lit = "Basic" /\ val.Kind = "NULL"
           THEN [h |-> h, w |-> 0]
           ELSE coerce(ck, h, p, Tail(valType))
       ELSE [h |-> h, w |-> 0]

\* switch a.arg == nil { case !isNonNull: ...; case isNonNull && argDef.Default
\* != nil: ...; case isNonNull && argDef.Default == nil: ... }: whether a
\* supplied value (a.arg == nil is false) passes the switch of validateArgs and
\* of validateObj and reaches validateValue
reachesValue(isNonNull, hasDefault) ==
    /\ FALSE # ~isNonNull
    /\ FALSE # (isNonNull /\ hasDefault)
    /\ FALSE # (isNonNull /\ ~hasDefault)

\* the routines that hand a literal to validateValue, and what they give as c:
\* validateDirective the *ast.InputValue f, validateArgDefs its struct a,
\* validateArgs the *ast.Arg and validateObj the *ast.ObjLit_Pair, both after
\* their switch; "validateValue" is the function called with an *ast.Arg
Containers ==
    {"validateValue", "validateDirective", "validateArgDefs", "validateArgs", "validateObj"}
validatedBy(ck, h, valType) ==
    CASE ck = "validateValue" -> coerce("Arg", h, <<>>, valType).h
      [] ck = "validateDirective" -> coerce("InputValue", h, <<>>, valType).h
      [] ck = "validateArgDefs" -> coerce("struct", h, <<>>, valType).h
      [] ck = "validateArgs" ->
            IF reachesValue(IsNonNull(valType), FALSE)
            THEN coerce("Arg", h, <<>>, valType).h ELSE h
      [] ck = "validateObj" ->
            IF reachesValue(IsNonNull(valType), FALSE)
            THEN coerce("Pair", h, <<>>, valType).h ELSE h

\* one validation of the container
ValidateHeld ==
    /\ UNCHANGED <<importVars, mergeVars, checkVars, validVars>>
    /\ pc = "values"
    /\ runs < MaxRuns
    /\ held' = validatedBy(container, held, heldType)
    /\ runs' = runs + 1
    /\ UNCHANGED <<pc, container, heldType, original, cmp>>

\* one call of compareTypes with the declarations of CompareIR
CompareIR ==
    IRof(<<>>,
         <<InterfaceType("I", <<IntField("f")>>),
           ObjectType("O", <<"I">>, <<IntField("f")>>, <<>>),
           UnionDef("U", <<"O">>)>>)
Compare ==
    /\ UNCHANGED <<importVars, mergeVars, checkVars, validVars>>
    /\ pc = "compare"
    /\ cmp' = [cmp EXCEPT !.res = compareTypes(cmp.a, cmp.b, typeDecls(CompareIR, "a"))]
    /\ pc' = "compared"
    /\ UNCHANGED <<container, held, heldType, original, runs>>

NextValue ==
    \/ ValidateHeld
    \/ Compare

\* the literals and the types of the containers: the object literals of a
\* pair are left out
HeldLits ==
    {BasicLit("INT", "1"), BasicLit("STRING", "s"), CompositeBasic("INT", "1"),
     ObjLit(<<Pair("a", CompositeBasic("INT", "1"))>>),
     ListLit(<<BasicLit("INT", "1")>>),
     ListLit(<<BasicLit("INT", "1"), BasicLit("INT", "2")>>),
     ListLit(<<ListLit(<<BasicLit("INT", "1")>>)>>)}
HeldTypes ==
    {Ident("Int"), Ident("Float"), ListOf(Ident("Int")), ListOf(Ident("Float")),
     ListOf(ListOf(Ident("Int"))), NonNullOf(ListOf(Ident("Int"))),
     ListOf(NonNullOf(Ident("Int"))), NonNullOf(Ident("Float"))}

\* the types compareTypes is given: O implements I and is a member of U, X is
\* not declared
CompareNames == {"O", "I", "U", "Int", "X"}
Wrappings(t) ==
    {t, ListOf(t), NonNullOf(t), ListOf(ListOf(t)), NonNullOf(ListOf(t)),
     ListOf(NonNullOf(t))}
ComparedTypes == UNION {Wrappings(Ident(n)) : n \in CompareNames}
NotCompared == [panics |-> {}, ok |-> Nil]

InitValue ==
    /\ ImportIdle
    /\ MergeIdle
    /\ CheckIdle
    /\ ValidIdle
    /\ \/ /\ pc = "values"
          /\ container \in Containers
          /\ held \in IF container = "validateObj"
                      THEN {CompositeBasic("INT", "1"), CompositeBasic("STRING", "s")}
                      ELSE HeldLits
          /\ heldType \in HeldTypes
          /\ original = held
          /\ runs = 0
          /\ cmp = Nil
       \/ /\ pc = "compare"
          /\ container = Nil /\ held = Nil /\ heldType = <<>> /\ original = Nil /\ runs = 0
          /\ \E a \in ComparedTypes, b \in ComparedTypes :
                cmp = [a |-> a, b |-> b, res |-> NotCompared]

SpecValue == InitValue /\ [][NextValue]_vars

-----------------------------------------------------------------------------
(* What the claims speak of *)

\* the built-in scalar names of the language
BuiltinNames == {"Int", "Float", "String", "Boolean", "ID"}

\* the names the import directives of a batch name, and whether a names b
PathsOf(doc) == {TrimQuotes(v) : v \in Range(importValues(doc))}
NamedPaths(ds) == UNION {PathsOf(ds[i]) : i \in DOMAIN ds}
Names(ds) == {ds[i].Name : i \in DOMAIN ds}
Imports(ds, a, b) == \E i \in DOMAIN ds : ds[i].Name = a /\ b \in PathsOf(ds[i])
Mutual(ds, a, b) == Imports(ds, a, b) /\ Imports(ds, b, a)
HasMutualPair(ds) ==
    \E a \in Names(ds), b \in Names(ds) : a # b /\ Mutual(ds, a, b)
HasUnknownPath(ds) == NamedPaths(ds) \ Names(ds) # {}

\* ReduceImports has returned its error, and no document
ReturnedError == pc = "error" /\ rDocs = <<>>
\* createImportTries has returned the forest
BuildSucceeded == pc \in {"resolve", "walk", "finish", "done", "panic"}

-----------------------------------------------------------------------------
(* C1: circular imports *)

\* the error is the circular-imports error and names two documents of the
\* batch that import each other
CircularErrorNamesPair ==
    /\ err.kind = "circular imports"
    /\ Mutual(input, err.a, err.b)

\* C1, as stated: whenever two distinct documents of the batch name each other
\* in their import directives, ReduceImports builds no forest and returns the
\* circular-imports error naming two such documents, and no document
C1_AsStated ==
    HasMutualPair(input) =>
        /\ ~BuildSucceeded
        /\ ~(pc = "build" /\ bi > Len(nodes))
        /\ pc = "error" => ReturnedError /\ CircularErrorNamesPair

\* C1, amended: whenever two distinct documents of the batch name each other
\* in their import directives, ReduceImports builds no forest and returns an
\* error and no document; the error is the circular-imports error naming two
\* documents that import each other unless an import of a document the batch
\* lacks is met first, which is reported instead
C1_CircularImport ==
    HasMutualPair(input) =>
        /\ ~BuildSucceeded
        /\ ~(pc = "build" /\ bi > Len(nodes))
        /\ pc = "error" =>
              /\ ReturnedError
              /\ \/ CircularErrorNamesPair
                 \/ err.kind = "unknown import" /\ TrimQuotes(err.a) \notin Names(input)

\* a batch whose a and b import each other has been refused with the error
\* naming a and b
C1_Witness ==
    /\ HasMutualPair(input)
    /\ ReturnedError
    /\ err.kind = "circular imports"
    /\ {err.a, err.b} = {"a", "b"}
    /\ NamedPaths(input) \subseteq Names(input)

-----------------------------------------------------------------------------
(* C2: the roots of the forest *)

\* the names of the documents no import path of the batch names, in the order
\* of the batch
ExpectedRoots(ds) ==
    LET all == [i \in DOMAIN ds |-> ds[i].Name]
    IN  SelectSeq(all, LAMBDA n : n \notin NamedPaths(ds))

\* C2: when the build phase reports no error, the forest, and the documents
\* ReduceImports returns, are exactly the input documents that no import path
\* names, in their input order
C2_ForestRoots ==
    /\ BuildSucceeded => [i \in DOMAIN nodes |-> input[nodes[i]].Name] = ExpectedRoots(input)
    /\ pc = "done" => [i \in DOMAIN rDocs |-> rDocs[i].Name] = ExpectedRoots(input)

\* the ten documents of the test are reduced to a, b, c and d
C2_Witness ==
    /\ pc = "done"
    /\ Len(input) = 10
    /\ [i \in DOMAIN rDocs |-> rDocs[i].Name] = <<"a", "b", "c", "d">>
    /\ NamedPaths(input) # {}

-----------------------------------------------------------------------------
(* C9: unknown imports *)

\* C9, as stated: whenever an import path of the batch names a document the
\* batch lacks, ReduceImports returns the unknown-import error and no
\* document, and rewrites the type list of no document
C9_AsStated ==
    HasUnknownPath(input) =>
        /\ ~BuildSucceeded
        /\ ~(pc = "build" /\ bi > Len(nodes))
        /\ docs = input
        /\ pc = "error" => ReturnedError /\ err.kind = "unknown import"

\* C9, amended: whenever an import path of the batch names a document the
\* batch lacks, ReduceImports returns an error and no document, and rewrites
\* the type list of no document; the error is the unknown-import error for
\* such a path unless two documents that import each other are met first,
\* which are reported as circular imports instead
C9_UnknownImport ==
    HasUnknownPath(input) =>
        /\ ~BuildSucceeded
        /\ ~(pc = "build" /\ bi > Len(nodes))
        /\ docs = input
        /\ pc = "error" =>
              /\ ReturnedError
              /\ \/ err.kind = "unknown import" /\ TrimQuotes(err.a) \notin Names(input)
                 \/ CircularErrorNamesPair

\* a batch with an import of x, which no document is, has been refused with
\* the unknown-import error for x
C9_Witness ==
    /\ HasUnknownPath(input)
    /\ ReturnedError
    /\ err.kind = "unknown import"
    /\ TrimQuotes(err.a) = "x"
    /\ docs = input

-----------------------------------------------------------------------------
(* C10: the import directive *)

\* the directives of a document other than import
OtherDirectives(doc) == SelectSeq(doc.Directives, LAMBDA d : d.Name # "import")

\* C10: once createImportTries has succeeded, no document of the batch
\* carries an import directive, and its other directives are as before
C10_ImportRemoved ==
    BuildSucceeded =>
        \A i \in DOMAIN docs : docs[i].Directives = OtherDirectives(input[i])

-----------------------------------------------------------------------------
(* References between declarations *)

\* the name a type expression ends in
TypeName(t) == t[Len(t)]

\* the names the fields of a field list, and their arguments, refer to
RECURSIVE FieldRefs(_)
FieldRefs(fl) ==
    IF ~fl.present THEN {}
    ELSE UNION {(IF fl.List[i].Type = NoType THEN {} ELSE {TypeName(fl.List[i].Type)})
                    \cup FieldRefs(fl.List[i].Args) : i \in DOMAIN fl.List}

\* the type names a declaration refers to, the built-in ones aside
Refs(d) == (Range(d.Interfaces) \cup Range(d.Members) \cup FieldRefs(d.Fields)) \ BuiltinNames

NamesOf(types) == {types[i].name : i \in DOMAIN types}
RefsOf(types) == UNION {Refs(types[i]) : i \in DOMAIN types}

\* the documents a document imports, and those it imports transitively
ImportsOf(ds, i) == {dMapAt(ds, TrimQuotes(v)) : v \in Range(importValues(ds[i]))} \ {0}
RECURSIVE ReachFrom(_, _, _)
ReachFrom(ds, S, k) ==
    IF k = 0 THEN S
    ELSE ReachFrom(ds, S \cup UNION {ImportsOf(ds, i) : i \in S}, k - 1)
Closure(ds, r) == ReachFrom(ds, ImportsOf(ds, r), Len(ds))

\* the declarations of the documents the root r imports transitively
ClosureDecls(ds, r) == UNION {Range(ds[i].Types) : i \in Closure(ds, r)}

\* every name the root or its import closure refers to is declared there
AllDeclared(ds, r) ==
    RefsOf(ds[r].Types) \cup UNION {Refs(d) : d \in ClosureDecls(ds, r)}
        \subseteq NamesOf(ds[r].Types) \cup {d.name : d \in ClosureDecls(ds, r)}

-----------------------------------------------------------------------------
(* C3: resolution is complete *)

\* the type list of a returned root is closed: a declaration, not nil, for
\* every name it refers to, and every name once
SelfContained(types) ==
    /\ \A i \in DOMAIN types : types[i] # NilDecl
    /\ RefsOf(types) \subseteq NamesOf(types)
    /\ Cardinality(NamesOf(types)) = Len(types)

\* C3, as stated: when every referenced name is declared in the root or its
\* import closure and ReduceImports returns, the root's final type list holds
\* a declaration for every name the root declares or transitively references,
\* each once
C3_AsStated ==
    pc = "done" =>
        \A i \in DOMAIN nodes :
            AllDeclared(input, nodes[i]) =>
                /\ SelfContained(rDocs[i].Types)
                /\ RefsOf(input[nodes[i]].Types) \subseteq NamesOf(rDocs[i].Types)
                /\ NamesOf(input[nodes[i]].Types) \subseteq NamesOf(rDocs[i].Types)

\* C3, amended: when every referenced name is declared in the root or its
\* import closure and ReduceImports returns, the root's final type list holds
\* a declaration for every name the root transitively references and for
\* every name the root declares that isBuiltinType does not take for the name
\* of a built-in scalar, each once
C3_ResolutionComplete ==
    pc = "done" =>
        \A i \in DOMAIN nodes :
            AllDeclared(input, nodes[i]) =>
                /\ SelfContained(rDocs[i].Types)
                /\ RefsOf(input[nodes[i]].Types) \subseteq NamesOf(rDocs[i].Types)
                /\ {n \in NamesOf(input[nodes[i]].Types) : ~isBuiltinType(n)}
                       \subseteq NamesOf(rDocs[i].Types)

\* the diamond five -> {six, two} -> thr is reduced to five with four types,
\* Version of thr among them once
C3_Witness ==
    /\ pc = "done"
    /\ input = Diamond
    /\ AllDeclared(input, 1)
    /\ Len(rDocs) = 1
    /\ rDocs[1].Name = "five"
    /\ Len(rDocs[1].Types) = 4
    /\ NamesOf(rDocs[1].Types) = {"T", "Doc", "Obj", "Version"}

-----------------------------------------------------------------------------
(* C4: resolution is minimal *)

\* the names a root may come to hold: those it declares or refers to, and
\* those a declaration of its import closure refers to whose own name is
\* already among them
RECURSIVE IncludedFrom(_, _, _, _)
IncludedFrom(ds, r, S, k) ==
    IF k = 0 THEN S
    ELSE IncludedFrom(ds, r,
            S \cup UNION {Refs(d) : d \in {e \in ClosureDecls(ds, r) : e.name \in S}},
            k - 1)
Included(ds, r) ==
    IncludedFrom(ds, r, NamesOf(ds[r].Types) \cup RefsOf(ds[r].Types),
                 Cardinality(ClosureDecls(ds, r)) + 1)

\* C4: a name referred to only by declarations of imported documents that
\* are not themselves included in the root never becomes a key of the root's
\* final type map
C4_Minimal ==
    pc = "finish" => DOMAIN typeMap \subseteq Included(input, nodes[ti])

-----------------------------------------------------------------------------
(* C8: the peer passes end *)

\* C8: the repeated passes over the imports stop as soon as a pass resolves
\* no further name, whatever is still unresolved
C8_PassesStop ==
    [][(pc = "walk" /\ phase = "peer" /\ q = <<>>
            /\ DOMAIN resolvedEntries(peerMap) = {})
        => pc' = "finish"]_vars

-----------------------------------------------------------------------------
(* C5, C6: MergeExtensions *)

\* a list is its single Definition followed only by extensions of its kind
DefinitionThenExtensions(decls) ==
    /\ decls # <<>>
    /\ ~decls[1].ext
    /\ decls[1].kind \in MergeKinds
    /\ decls[1].Tok = TokOf(decls[1].kind)
    /\ \A i \in 2..Len(decls) : decls[i].ext /\ decls[i].kind = decls[1].kind

MergeInputOk == \A n \in DOMAIN typesIn : DefinitionThenExtensions(typesIn[n])

\* C5: for every map in which each name's list is its single Definition
\* followed only by extensions of its kind, MergeExtensions returns a map of
\* the same names in which every list is one declaration, a Definition
C5_OneDefinition ==
    MergeInputOk =>
        /\ pc # "panic"
        /\ pc = "merged" =>
              /\ DOMAIN typesOut = DOMAIN typesIn
              /\ \A n \in DOMAIN typesOut :
                    Len(typesOut[n]) = 1 /\ ~typesOut[n][1].ext

\* the members of each sort of a list of declarations, in list order
AllOf(decls, part(_)) == SeqConcat([i \in DOMAIN decls |-> part(decls[i])])
FieldsOf(d) == d.Fields.List
MembersOf(d) == d.Members
InterfacesOf(d) == d.Interfaces
DirectivesOf(d) == d.Directives

\* the Definition holds the members of the whole list, in list order
MergedInOrder(def, decls) ==
    /\ FieldsOf(def) = AllOf(decls, FieldsOf)
    /\ MembersOf(def) = AllOf(decls, MembersOf)
    /\ InterfacesOf(def) = AllOf(decls, InterfacesOf)
    /\ DirectivesOf(def) = AllOf(decls, DirectivesOf)

\* C6: merging a Definition of m members with extensions adding k_1..k_N
\* members yields a Definition with the m + k_1 + ... + k_N members, the
\* Definition's first and then each extension's in list order; so too for
\* the interfaces and for the directives
C6_MembersInOrder ==
    MergeInputOk =>
        /\ pc # "panic"
        /\ pc = "merged" =>
              \A n \in DOMAIN typesIn : MergedInOrder(typesOut[n][1], typesIn[n])

-----------------------------------------------------------------------------
(* C7: CheckTypes *)

\* C7: CheckTypes invokes every checker on the IR, in order, whatever the
\* earlier ones returned, and returns every diagnostic of every checker in
\* checker order
C7_AllDiagnostics ==
    /\ pc = "check" /\ ci > 0 =>
          /\ Len(called) = ci - 1
          /\ errs = SeqConcat(SubSeq(checkers, 1, ci - 1))
    /\ pc = "checked" =>
          /\ [j \in DOMAIN called |-> called[j].checker] = [j \in DOMAIN checkers |-> j]
          /\ \A j \in DOMAIN called : called[j].docs = ir
          /\ errs = SeqConcat(checkers)

\* three checkers, the first two returning diagnostics, have all been invoked
\* and CheckTypes has returned the diagnostics of all
C7_Witness ==
    /\ pc = "checked"
    /\ Len(checkers) = 3
    /\ checkers[1] # <<>> /\ checkers[2] # <<>> /\ checkers[3] # <<>>
    /\ Len(called) = 3
    /\ Len(errs) = Len(checkers[1]) + Len(checkers[2]) + Len(checkers[3])
    /\ errs[1] = <<1, 1>> /\ errs[Len(errs)] = <<3, Len(checkers[3])>>

-----------------------------------------------------------------------------
(* C11: the built-in scalars *)

\* the batch refers to a built-in scalar, or declares a type of its name
MentionsBuiltin(ds) ==
    \E i \in DOMAIN ds : \E j \in DOMAIN ds[i].Types :
        LET d == ds[i].Types[j]
        IN  \/ d.name \in BuiltinNames
            \/ (Range(d.Interfaces) \cup Range(d.Members) \cup FieldRefs(d.Fields))
                   \cap BuiltinNames # {}

\* C11: in every state of a root's working type maps, and in every type list
\* resolveImports has written, none of Int, Float, String, Boolean, ID is a
\* key, be the name declared by a document or only referred to
C11_NoBuiltinKeys ==
    /\ DOMAIN typeMap \cap BuiltinNames = {}
    /\ DOMAIN peerMap \cap BuiltinNames = {}
    /\ \A i \in DOMAIN rDocs : NamesOf(rDocs[i].Types) \cap BuiltinNames = {}
    /\ pc \in {"resolve", "done"} =>
          \A i \in 1..(IF ti - 1 < Len(nodes) THEN ti - 1 ELSE Len(nodes)) :
              NamesOf(docs[nodes[i]].Types) \cap BuiltinNames = {}

\* a root that declares the scalar Int beside a type that refers to others
\* has been resolved and returned, with a type map that is not empty
C11_Witness ==
    /\ pc = "done"
    /\ MentionsBuiltin(input)
    /\ \E j \in DOMAIN input[nodes[1]].Types : input[nodes[1]].Types[j].name = "Int"
    /\ DOMAIN typeMap # {}
    /\ Len(rDocs[1].Types) >= 2

-----------------------------------------------------------------------------
(* C12: the lists MergeExtensions refuses *)

\* a list of more than one declaration that starts with a Directive
\* declaration
StartsWithDirective(decls) == Len(decls) > 1 /\ decls[1].kind = "Directive"

\* a list of more than one declaration that starts with a declaration that is
\* no Definition, or holds one that is no extension after the first, or
\* starts with a Directive declaration
Refused(decls) ==
    /\ Len(decls) > 1
    /\ \/ decls[1].ext
       \/ \E i \in 2..Len(decls) : ~decls[i].ext
       \/ decls[1].kind = "Directive"

\* C12: MergeExtensions ends in a panic, and does not return, when the list
\* of some name is refused; the panic for a list starting with a Directive
\* declaration says 'cannot be extended'; and no list of one declaration
\* makes it panic, whatever its kind
C12_FatalLists ==
    /\ (\E n \in DOMAIN typesIn : Refused(typesIn[n])) =>
          pc # "merged" /\ ~(pc = "merge" /\ todo = {})
    /\ pc = "panic" =>
          /\ Len(typesIn[panicked.name]) > 1
          /\ StartsWithDirective(typesIn[panicked.name]) =>
                panicked.msg = "cannot be extended"
    /\ (\A n \in DOMAIN typesIn : Len(typesIn[n]) = 1) => pc # "panic"

\* the merge has panicked with 'cannot be extended' on a Directive
\* declaration followed by an extension
C12_Witness ==
    /\ pc = "panic"
    /\ StartsWithDirective(typesIn[panicked.name])
    /\ typesIn[panicked.name][2].ext
    /\ panicked.msg = "cannot be extended"

-----------------------------------------------------------------------------
(* C13: the order in which validate validates the declarations *)

\* the place of a declaration in the order of validation: Schema, Scalar, Enum,
\* Union, Interface, Input, Object, then the Extensions, then the Directive
\* declarations
Priority(v) ==
    IF v.ext THEN 8
    ELSE CASE v.kind = "Schema" -> 1
           [] v.kind = "Scalar" -> 2
           [] v.kind = "Enum" -> 3
           [] v.kind = "Union" -> 4
           [] v.kind = "Interface" -> 5
           [] v.kind = "Input" -> 6
           [] v.kind = "Object" -> 7
           [] v.kind = "Directive" -> 9
           [] OTHER -> 0

\* C13: the declarations of a document are validated in the order Schema,
\* Scalar, Enum, Union, Interface, Input, Object, Extensions, Directive
\* declarations: of two declarations of one document, the one validated first
\* never comes later in this order (so no Object is validated before an
\* Interface, and no Extension before a Definition of these kinds)
C13_PriorityOrder ==
    \A i \in DOMAIN validated : \A j \in DOMAIN validated :
        i < j /\ validated[i].doc = validated[j].doc =>
            Priority(validated[i]) <= Priority(validated[j])

-----------------------------------------------------------------------------
(* C14: validate ends in no fatal error on a well-formed IR *)

\* every field of the list carries a type, and so does every argument of it
Typed(list) ==
    \A i \in DOMAIN list :
        /\ list[i].Type # NoType
        /\ "Args" \in DOMAIN list[i] /\ list[i].Args.present =>
              \A j \in DOMAIN list[i].Args.List : list[i].Args.List[j].Type # NoType

\* the list of every name starts with a Definition, and every field, argument
\* and root operation of every declaration carries a type
WellFormed(irv) ==
    \A d \in DOMAIN irv : \A n \in DOMAIN irv[d].Types :
        /\ ~irv[d].Types[n][1].ext
        /\ \A i \in DOMAIN irv[d].Types[n] : Typed(irv[d].Types[n][i].Fields.List)

\* C14: on an IR in which every list starts with a Definition and every
\* field, argument and root operation carries a type, validate never ends in
\* a panic
C14_NeverFatal == WellFormed(vir) => pc # "vpanic"

-----------------------------------------------------------------------------
(* C15: ReduceImports terminates *)

\* ReduceImports has returned, with the documents or with an error
Terminated == pc \in {"done", "error", "panic"}

\* the walk has made MaxVisits visits and its next visit changes the map or
\* the length of the queue, or leaves the queue as it is: the walk is not
\* followed further
NotFollowed ==
    /\ pc = "walk" /\ q # <<>> /\ Len(visited) >= MaxVisits
    /\ LET m == IF phase = "walk" THEN typeMap ELSE peerMap
           r == addTypes("import", docs[Head(q)].Types, m)
       IN  ~(r.panic = Ok /\ r.m = m /\ Len(Childs[Head(q)]) = 1
             /\ Childs[Head(q)] # <<Head(q)>>)

\* C15: ReduceImports terminates on every batch: it returns an error of the
\* build phase, or it resolves every root and returns.  A walk that is not
\* followed further counts as one that ends, so that only a walk that goes
\* round for ever refutes this.
C15_Terminates == <>(Terminated \/ NotFollowed)

-----------------------------------------------------------------------------
(* C16: a name supplied by two documents of one traversal *)

\* the map the walk in progress fills: typeMap in the first walk, peerMap after
walkMap == IF phase = "walk" THEN typeMap ELSE peerMap

\* the declarations named name of the document the next iteration visits
Supplied(name) == SelectSeq(docs[Head(q)].Types, LAMBDA tg : tg.name = name)

\* the next iteration of walk visits a document that supplies one declaration
\* of name, the map holds a declaration of name that came from another
\* document, the two are of one kind and at most one of them is a Definition
SecondSupplier(name) ==
    /\ pc = "walk" /\ q # <<>> /\ Len(visited) < MaxVisits
    /\ name \in DOMAIN walkMap /\ walkMap[name] # NilDecl
    /\ walkMap[name].src # NoSrc /\ walkMap[name].src[1] # docs[Head(q)].Name
    /\ Len(Supplied(name)) = 1
    /\ Supplied(name)[1].kind = walkMap[name].kind
    /\ Supplied(name)[1].Fields.present = walkMap[name].Fields.present
    /\ walkMap[name].ext \/ Supplied(name)[1].ext
    /\ \A i \in DOMAIN docs[Head(q)].Types : docs[Head(q)].Types[i].name # Nil

\* decl holds the members and directives of o followed by those of n, and is
\* a Definition when either is
MergedOf(decl, o, n) ==
    /\ decl.name = o.name
    /\ decl.ext = (o.ext /\ n.ext)
    /\ decl.Directives = o.Directives \o n.Directives
    /\ decl.Interfaces = o.Interfaces \o n.Interfaces
    /\ decl.Members = o.Members \o n.Members
    /\ decl.Fields.present => decl.Fields.List = o.Fields.List \o n.Fields.List

\* C16: when the document walk visits supplies a name the map already holds
\* from another document, and at most one of the two declarations is a
\* Definition, the visit does not panic and leaves under that name the merge of
\* the earlier declaration with the later one, whichever of them is the
\* Definition
C16_BothOrders ==
    [][\A name \in DOMAIN walkMap :
          SecondSupplier(name) =>
              /\ pc' = "walk"
              /\ MergedOf(walkMap'[name], walkMap[name], Supplied(name)[1])]_vars

-----------------------------------------------------------------------------
(* C17: the order of a walk *)

\* the documents at import depth 1, 2, ... k below a root whose direct imports
\* are level, depth after depth, each depth in the order of the imports
RECURSIVE levelOrder(_, _)
levelOrder(level, k) ==
    IF k = 0 \/ level = <<>> THEN <<>>
    ELSE level \o levelOrder(SeqConcat([i \in DOMAIN level |-> Childs[level[i]]]), k - 1)

IsPrefixOf(s, t) == Len(s) <= Len(t) /\ SubSeq(t, 1, Len(s)) = s

\* C17: during a walk, while its history is complete, the documents processed
\* so far, followed by the
\* documents waiting in the queue, are the first documents of the root's import
\* graph taken depth after depth from its direct imports in import order: every
\* document of depth d is processed before any document of depth d+1
C17_BreadthFirst ==
    pc = "walk" /\ Len(visited) < MaxVisits =>
        IsPrefixOf(visited \o q, levelOrder(Childs[nodes[ti]], MaxVisits + 1))

\* a walk has processed a document of depth 2 after two documents of depth 1
C17_Witness ==
    /\ pc = "walk"
    /\ Len(Childs[nodes[ti]]) >= 2
    /\ Len(visited) > Len(Childs[nodes[ti]])
    /\ \E i \in DOMAIN visited : visited[i] \notin Range(Childs[nodes[ti]])

-----------------------------------------------------------------------------
(* C18, C19, C20: the values supplied to a directive and to an input object *)

\* the diagnostics validate has returned
Returned == IF pc = "validated" THEN BagToSet(verrs) ELSE {}

\* how many arguments of the list carry the name n, how many pairs the key k
Times(list, n) == Cardinality({i \in DOMAIN list : list[i].Name = n})
TimesKey(pairs, k) == Cardinality({i \in DOMAIN pairs : pairs[i].Key = k})

\* validate was called with the scalar S to which d is applied with args
AppliedWith(args) ==
    \E argType \in {Ident("Int"), NonNullOf(Ident("Int"))} :
        vir = AppliedIR("d", argType, FieldList(args))

\* validate has returned from an IR in which d(x: Int) is applied with one
\* argument x, a STRING literal
StringForIntArg ==
    /\ pc = "validated"
    /\ \E args \in SeqsUpTo(ArgPool, MaxArgs) :
          /\ AppliedWith(args)
          /\ Times(args, "x") = 1
          /\ Arg("x", BasicLit("STRING", "s")) \in Range(args)

\* validate has returned from an IR in which an object literal for the input
\* In { a: Int, b: String } has one field a, a STRING literal
StringForIntField ==
    /\ pc = "validated"
    /\ \E pairs \in SeqsUpTo(PairPool, MaxPairs) :
          /\ vir = LiteralIR(pairs)
          /\ TimesKey(pairs, "a") = 1
          /\ Pair("a", CompositeBasic("STRING", "s")) \in Range(pairs)

\* C18: a STRING literal supplied for the Int argument of an applied
\* directive, or for the Int field of an input-object literal, yields a
\* diagnostic that the literal is not coercible to the declared type
C18_SuppliedValidated ==
    /\ StringForIntArg =>
          \E e \in Returned : e[1] = "is not coercible to" /\ e[3] = "x"
    /\ StringForIntField =>
          \E e \in Returned : e[1] = "is not coercible to" /\ e[3] = "a"

\* C19: an input-object literal that holds the key a twice yields the
\* diagnostic that the field a must be unique
C19_DuplicateKey ==
    pc = "validated" =>
        \A pairs \in SeqsUpTo(PairPool, MaxPairs) :
            vir = LiteralIR(pairs) /\ TimesKey(pairs, "a") > 1 =>
                \E e \in Returned : e[1] = "field must be unique" /\ e[4] = "a"

\* C20: a directive applied with the argument x twice yields the diagnostic
\* that the arg x must be unique
C20_DuplicateArg ==
    pc = "validated" =>
        \A args \in SeqsUpTo(ArgPool, MaxArgs) :
            AppliedWith(args) /\ Times(args, "x") > 1 =>
                \E e \in Returned : e[1] = "arg must be unique in" /\ e[2] = "x"

-----------------------------------------------------------------------------
(* C21: a required argument that is not supplied *)

\* validate was called with the scalar S to which d(x: Int!) is applied with
\* the argument list args, which may be absent, and which does not hold x
RequiredMissing(args) ==
    /\ vir = AppliedIR("d", NonNullOf(Ident("Int")), args)
    /\ Times(args.List, "x") = 0

\* C21: a directive whose argument x is NonNull and has no default value,
\* applied without x, yields the diagnostic that the non-null arg x must be
\* present, whether it is applied with other arguments or with no argument
\* list at all
C21_RequiredArg ==
    pc = "validated" =>
        \A args \in {NilList} \cup {FieldList(a) : a \in SeqsUpTo(ArgPool, MaxArgs)} :
            RequiredMissing(args) =>
                \E e \in Returned : e[1] = "non-null arg must be present in" /\ e[2] = "x"

-----------------------------------------------------------------------------
(* C22: additional arguments of an implementing field *)

\* C22: an argument of the field f of the object that is not an argument of
\* the field f of the interface and whose type is NonNull yields a diagnostic,
\* also when the field of the interface has no arguments at all
C22_AdditionalArgs ==
    pc = "validated" =>
        \A iargs \in InterArgs : \A sel \in SUBSET (1..Len(ExtraArgPool)) :
            vir = ExtraArgsIR(iargs, sel) =>
                \A k \in sel :
                    /\ Times(iargs.List, ExtraArgPool[k].Name) = 0
                    /\ IsNonNull(ExtraArgPool[k].Type)
                    => \E e \in Returned :
                          /\ e[1] = "additional arguments to interface field implementation must be non-null"
                          /\ e[4] = ExtraArgPool[k].Name

-----------------------------------------------------------------------------
(* C23: the query of a schema *)

\* how many root operations of the list are named query
Queries(names) == Cardinality({i \in DOMAIN names : names[i] = "query"})

\* validate has reported a diagnostic about the query of the schema
QueryDiagnosed ==
    \E e \in Returned : e[1] \in {"schema: query object must be provided",
                                  "schema: at minimum query object must be provided"}

\* C23: validating a schema with a non-empty list of root operations yields a
\* diagnostic about its query unless exactly one root operation is named
\* query
C23_ExactlyOneQuery ==
    pc = "validated" =>
        \A names \in SeqsUpTo(RootOpNames, MaxRootOps) :
            vir = SchemaIR(names) /\ names # <<>> =>
                (QueryDiagnosed <=> Queries(names) # 1)

-----------------------------------------------------------------------------
(* C24: the fields of an interface on the object that names it *)

\* the object of ImplFieldsIR(fields) has no field f
LacksF(fields) == ~fields.present \/ "f" \notin NamesIn(fields.List)

\* the object has the field f, its return type and Int both resolve, and the
\* return type is not <= Int
NotSubType(fields) ==
    /\ ~LacksF(fields)
    /\ lookup(typeDecls(vir, "a"), specUnwrapType(FirstNamed(fields.List, "f").Type)) # <<>>
    /\ ~compareTypes(FirstNamed(fields.List, "f").Type, Ident("Int"),
                     typeDecls(vir, "a")).ok

\* C24: for the field f of the interface I that the object O names, 'must
\* include field' is reported exactly when O has no field f, be its field list
\* empty or absent, and 'must be a sub-type' exactly when O has f, both return
\* types resolve and that of O is not <= that of I
C24_InterfaceFields ==
    pc = "validated" =>
        \A fields \in ObjFieldLists :
            vir = ImplFieldsIR(fields) =>
                /\ LacksF(fields) <=>
                      \E e \in Returned :
                          e[1] = "object type must include field" /\ e[4] = "f"
                /\ NotSubType(fields) <=>
                      \E e \in Returned :
                          /\ e[1] = "object field type must be a sub-type of interface field type"
                          /\ e[3] = "f"


-----------------------------------------------------------------------------
(* compareTypes and nullability *)

CompareItems == typeDecls(CompareIR, "a")

\* C25: comparing NonNull(a) with a b that is not NonNull gives what
\* comparing a with b gives; comparing an a that is not NonNull with a NonNull
\* b gives false; so a type and its NonNull wrapping are never below one
\* another in both directions.
C25_NonNullLeftOnly ==
    pc = "compared" =>
        /\ IsNonNull(cmp.a) /\ ~IsNonNull(cmp.b) =>
               cmp.res = compareTypes(Tail(cmp.a), cmp.b, CompareItems)
        /\ ~IsNonNull(cmp.a) /\ IsNonNull(cmp.b) =>
               cmp.res = [panics |-> {}, ok |-> FALSE]
        /\ cmp.a = NonNullOf(cmp.b) \/ cmp.b = NonNullOf(cmp.a) =>
               ~(cmp.res.ok /\ compareTypes(cmp.b, cmp.a, CompareItems).ok)

C25_Witness ==
    /\ pc = "compared"
    /\ IsNonNull(cmp.a)
    /\ ~IsNonNull(cmp.b)
    /\ Tail(cmp.a) # cmp.b
    /\ cmp.res.ok

\* C26: a type compared with itself is below itself, whether its name is
\* declared or not and whatever wraps it; two Lists compare as what they
\* wrap, and so do two NonNulls.
C26_SameWrapper ==
    pc = "compared" =>
        /\ cmp.a = cmp.b => cmp.res = [panics |-> {}, ok |-> TRUE]
        /\ IsList(cmp.a) /\ IsList(cmp.b) =>
               cmp.res = compareTypes(Tail(cmp.a), Tail(cmp.b), CompareItems)
        /\ IsNonNull(cmp.a) /\ IsNonNull(cmp.b) =>
               cmp.res = compareTypes(Tail(cmp.a), Tail(cmp.b), CompareItems)

C26_Witness ==
    /\ pc = "compared"
    /\ IsList(cmp.a)
    /\ IsList(cmp.b)
    /\ cmp.a # cmp.b
    /\ cmp.res.ok

-----------------------------------------------------------------------------
(* validateValue and the literal it is given *)

\* the callers whose literal reaches validateValue whatever its type
CallsValidateValue == {"validateValue", "validateDirective", "validateArgDefs"}

\* C28: an INT literal validated against Float has the kind FLOAT and its
\* first text followed by ".0", after the first validation and after every
\* later one.
C28_FloatOnce ==
    /\ pc = "values"
    /\ runs >= 1
    /\ container \in CallsValidateValue
    /\ heldType \in {Ident("Float"), NonNullOf(Ident("Float"))}
    /\ original.lit \in {"Basic", "CBasic"}
    /\ original.Kind = "INT"
    => /\ held.lit = original.lit
       /\ held.Kind = "FLOAT"
       /\ held.Value = original.Value \o ".0"

C28_Witness ==
    /\ pc = "values"
    /\ runs >= 2
    /\ container = "validateArgDefs"
    /\ heldType = Ident("Float")
    /\ original = BasicLit("INT", "1")
    /\ held = BasicLit("FLOAT", "1.0")

\* the list depth of a type, the literal l in n lists of one element, the
\* depth of the lists around the first innermost literal of h, and that literal
RECURSIVE ListDepth(_)
ListDepth(t) ==
    IF IsIdent(t) THEN 0
    ELSE IF IsList(t) THEN 1 + ListDepth(Tail(t))
    ELSE ListDepth(Tail(t))
RECURSIVE Nest(_, _)
Nest(l, n) == IF n = 0 THEN l ELSE ListLit(<<Nest(l, n - 1)>>)
RECURSIVE Nesting(_)
Nesting(h) ==
    IF h.lit # "CList" THEN 0
    ELSE IF h.List = <<>> THEN 1
    ELSE 1 + Nesting(h.List[1])
RECURSIVE Innermost(_)
Innermost(h) == IF h.lit = "CList" /\ h.List # <<>> THEN Innermost(h.List[1]) ELSE h
SameButText(x, y) == [x EXCEPT !.Kind = "", !.Value = ""] = [y EXCEPT !.Kind = "", !.Value = ""]
BareLit(l) == l.lit \in {"Basic", "CBasic", "CObj"}

\* C27: after the validation of a container that held a literal which is no
\* list, against a type of list depth n, the container holds that literal in
\* exactly n lists of one element; after the validation of a container that
\* held a list, the lists around its elements are as many as before.
C27_ListCoercion ==
    pc = "values" /\ runs >= 1 =>
        /\ BareLit(original) =>
               /\ held = Nest(Innermost(held), ListDepth(heldType))
               /\ SameButText(Innermost(held), original)
        /\ original.lit = "CList" => Nesting(held) = Nesting(original)

-----------------------------------------------------------------------------
(* Extensions and what their Definition has already *)

\* the diagnostics of validateExtend for a name the Definition has already
CollisionMsgs ==
    {"field definition already exists in original object definition",
     "field already exists in original interface definition",
     "union member already exists in original union definition",
     "enum value already exists in original enum definition",
     "field definition already exists in original input definition"}

\* the names the Definition has and the Extension adds again
Collide(kind, base, added) ==
    {PartNames(kind)[base[i]] : i \in DOMAIN base}
        \cap {PartNames(kind)[added[i]] : i \in DOMAIN added}
Collided(n) == \E e \in Returned : Len(e) = 3 /\ e[1] \in CollisionMsgs /\ e[3] = n

\* C29: when validate has returned for a Definition and an Extension of its
\* kind, every name the Extension adds and the Definition has already is
\* named by a diagnostic of a collision.
C29_Collisions ==
    pc = "validated" =>
        \A kind \in ExtendKinds : \A base \in BaseParts : \A added \in AddedParts :
            vir = ExtendIR(kind, base, added) =>
                \A n \in Collide(kind, base, added) : Collided(n)

-----------------------------------------------------------------------------
(* The declarations a root had when ReduceImports was called *)

\* the declaration x stands for the declaration d of a root: it is d, or it
\* has the name of d and every interface, field, member and directive of d
Represents(x, d) ==
    /\ x.name = d.name
    /\ \/ x = d
       \/ /\ Range(d.Interfaces) \subseteq Range(x.Interfaces)
          /\ Range(d.Fields.List) \subseteq Range(x.Fields.List)
          /\ Range(d.Members) \subseteq Range(x.Members)
          /\ Range(d.Directives) \subseteq Range(x.Directives)
RootKept(r) ==
    \A j \in DOMAIN input[r].Types :
        ~isBuiltinType(input[r].Types[j].name) =>
            \E k \in DOMAIN docs[r].Types : Represents(docs[r].Types[k], input[r].Types[j])

\* C30: when ReduceImports has returned, every declaration a root had whose
\* name is not that of a built-in scalar is represented in the types of the
\* root.
C30_RootDeclarationsKept ==
    pc = "done" => \A i \in DOMAIN nodes : RootKept(nodes[i])

====
